---- MODULE Spec2Model ----
(***************************************************************************)
(* Signaling relays and per-peer session orchestrators of the WebRTC       *)
(* examples (group-video-call, expanded-video-call, broadcast).            *)
(*                                                                         *)
(* The module holds several specifications over the same variables:        *)
(*   SpecRelay  - a mesh relay alone, driven by arbitrary client messages  *)
(*   SpecOrch   - one client's orchestrator hook, called in any order      *)
(*   SpecMesh   - mesh clients running the application code, the relay and *)
(*                the transport between them, with leave and rejoin        *)
(*   SpecLive   - a mesh call in which every connection stays up, with     *)
(*                fair handling of what is in flight                       *)
(*   SpecCast   - the broadcast relay alone, driven by arbitrary messages  *)
(*   SpecGrace  - SpecCast with the 30 s cleanup timers weakly fair        *)
(*   SpecFrames - either relay, receiving malformed frames as well         *)
(*   SpecIce    - SpecOrch with connections that fail                      *)
(*   SpecStar   - the broadcast App of one broadcaster and two viewers,    *)
(*                the broadcast relay and the transport, with fair         *)
(*                handling of what is in flight                            *)
(*   SpecChat   - the broadcast relay under arbitrary messages, with chat  *)
(*   SpecTracks - SpecOrch with screen-share tracks, the viewer's          *)
(*                handleOffer and closeConnection                          *)
(*   SpecShare  - an expanded call with screen sharing and late joiners    *)
(*   SpecAir    - SpecStar's system with end, leave, back and relay-side   *)
(*                close                                                    *)
(*   SpecTalk   - an expanded call with its chat data channels             *)
(*   SpecTrickle - the broadcast App of one broadcaster and one viewer     *)
(*                with ICE candidates, end of broadcast, and the viewRef   *)
(*                effect running after the handler that changed the view;  *)
(*                in the other specifications it runs before the next      *)
(*                message is handled                                       *)
(***************************************************************************)
EXTENDS Integers, Sequences, FiniteSets, TLC

Nil == "nil"

\* transport handles (one WebSocket each), room names, peer ids, payloads
Conns == {"w1", "w2", "w3"}
RoomIds == {"r1", "r2"}
PeerIds == {"p1", "p2"}
Payloads == {"x", "y"}
SignalTypes == {"offer", "answer", "ice-candidate"}
MeshApps == {"group", "expanded"}
Apps == {"group", "expanded", "broadcast"}

\* the clients; a client's peerId names it, and each has its own transport
Clients == {"p1", "p2", "p3"}
\* ICE candidates, named in the order in which they are produced
Candidates == <<"c1", "c2", "c3", "c4", "c5", "c6">>

\* broadcast ids that generateBroadcastId can return
BroadcastIds == {"b1", "b2"}
\* frames that are not a well-formed envelope: text that is not JSON, the JSON
\* values null and 42, an object whose type no relay knows
MalformedFrames == {"{", "null", "42", "{type:dance}"}

\* length of the event traces explored for the relay alone
MaxEvents == 4
\* length of the event traces explored for the broadcast relay alone
MaxCastEvents == 5
\* length of the event traces that include malformed frames
MaxFrames == 3
\* length of the event traces explored with the cleanup timers running
MaxGraceEvents == 4
\* length of the event traces that include chat messages
MaxChatEvents == 4
\* RTCPeerConnection objects one client constructs, candidates that arrive at
\* one client, handler invocations one client has suspended at the same time
MaxPc == 2
MaxCalls == 5
MaxCand == 3
MaxTasks == 2
\* candidates one RTCPeerConnection gathers
MaxGather == 1
\* clients that take part in a mesh call, and times a connection ends
MeshClients == {"p1", "p2"}
\* clients of the expanded call with screen sharing, and times they start or
\* stop sharing
ShareClients == {"p1", "p2"}
MaxToggles == 2
\* chat messages sent in a call
MaxChat == 1
MaxLeaves == 1

\* SpecAir: at most this many clients end, leave or go back
MaxExits == 1

VARIABLES
  app,            \* which example application's code is running
  rooms,          \* relay: roomId -> ordered member table (Map<string, Map<string, Peer>>)
  currentRoomId,  \* relay: per connection closure variable
  currentPeerId,  \* relay: per connection closure variable
  readyState,     \* relay: ws.readyState of each connection
  sent,           \* relay: the ws.send calls of the last relay step, in order
  snapshot,       \* history: peers listed in the last room-peers sent to a connection
  notices,        \* history: peerIds for which peer-joined was sent to a connection
  joinedAt,       \* history: per connection, the rank of its last join among all joins (0: never)
  received,       \* number of events the relay has handled (SpecRelay only)
  peerConnections,   \* client: peerConnectionsRef, remote peerId -> RTCPeerConnection
  pendingCandidates, \* client: pendingCandidatesRef, remote peerId -> queued candidates
  remotePeers,       \* client: remotePeers / viewers React state, in order
  viewerCount,       \* broadcaster client: viewerCount React state
  tasks,             \* client: async handler invocations suspended at an await
  pcSerial,          \* client: number of RTCPeerConnection objects constructed so far
  openPcs,           \* history: RTCPeerConnection objects constructed and not closed
  arrived,           \* history: candidates given to handleIceCandidate, per remote peer
  added,             \* history: candidates passed to pc.addIceCandidate, per remote peer
  sock,              \* client: the open WebSocket of wsRef, Nil when there is none
  clientEnd,         \* transport: state of each connection at the client's end
  isJoined,          \* client: the application shows the call view
  toRelay,           \* transport: messages sent by a client, not yet handled by the relay
  toClient,          \* transport: messages sent by the relay, not yet handled by the client
  broadcasts,          \* broadcast relay: broadcastId -> BroadcastRoom
  currentBroadcastId,  \* broadcast relay: per connection closure variable
  currentRole,         \* broadcast relay: per connection closure variable
  cleanup,             \* broadcast relay: the setTimeout of a broadcaster's close handler
  left,                \* history: connections whose own leave-broadcast removed their viewer
                       \* entry and that have not registered again
  frame,               \* history: connection and type of the frame handled in the last relay
                       \* step, for broadcast relay events and malformed frames
  view,                \* broadcast App: the view React state of each client
  viewRef,             \* broadcast App: viewRef.current of each client where it still holds
                       \* the view of an earlier render, Nil where it holds view
  appBroadcastId,      \* broadcast App: the broadcastId React state of each client
  sendTimer,           \* broadcast App: the messages that pending setTimeout(..., 100) callbacks send
  joinedLive,          \* history: viewers whose join-broadcast the relay handled while the
                       \* broadcaster's client was in the broadcasting view
  isLive,              \* broadcast App: the isLive React state of each client
  screenStream,        \* expanded client: the stream of useScreenShare (streamRef, screenStream
                       \* state and the screenStreamRef of useWebRTC), TRUE while one exists
  isScreenSharing,     \* expanded relay: <<roomId, peerId>> of the PeerInfo entries whose
                       \* isScreenSharing is true
  remoteScreen,        \* expanded client: the remote peers whose RemotePeer.screenStream is set
  reportedSharing,     \* history: peers listed with isScreenSharing true in the last room-peers
                       \* sent to a connection
  opened,              \* expanded: the data channels whose transport is up (the creator's
                       \* end has readyState 'open')
  announced,           \* expanded: the data channels whose datachannel event has fired at
                       \* the remote peer
  wire,                \* expanded: <<from, to>> -> the data channel messages in flight
  messages,            \* expanded client: the messages state of useChat, in order
  posted               \* history: <<message, to>> for every channel.send of sendChatMessage

clientVars == <<peerConnections, pendingCandidates, remotePeers, viewerCount, tasks,
                pcSerial, openPcs, arrived, added>>
netVars == <<sock, clientEnd, isJoined, toRelay, toClient>>
relayVars == <<rooms, currentRoomId, currentPeerId, readyState, sent, snapshot, notices, joinedAt>>
castState == <<broadcasts, currentBroadcastId, currentRole, cleanup, left>>
appVars == <<view, appBroadcastId, sendTimer, joinedLive, isLive>>
castVars == <<castState, frame, appVars>>
shareVars == <<screenStream, isScreenSharing, remoteScreen, reportedSharing>>
chatVars == <<opened, announced, wire, messages, posted>>
\* the value of frame after a step that handled a well-formed mesh relay event
NoFrame == [ws |-> Nil, type |-> Nil]

----------------------------------------------------------------------------
(* JavaScript Map keyed by peerId, kept as a sequence in insertion order.   *)

MapHas(m, k) == \E i \in 1..Len(m) : m[i].peerId = k
MapIndex(m, k) == CHOOSE i \in 1..Len(m) : m[i].peerId = k
MapGet(m, k) == m[MapIndex(m, k)]
MapSet(m, k, v) == IF MapHas(m, k) THEN [m EXCEPT ![MapIndex(m, k)] = v] ELSE Append(m, v)
MapDelete(m, k) == SelectSeq(m, LAMBDA e : e.peerId # k)
MapKeys(m) == [i \in 1..Len(m) |-> m[i].peerId]
SeqRange(s) == {s[i] : i \in 1..Len(s)}
SetMax(S) == CHOOSE x \in S : \A y \in S : y <= x

\* envelope: every message has the same fields, unused ones are Nil
Envelope(type, peerId, peers, from, to, payload) ==
  [type |-> type, peerId |-> peerId, peers |-> peers, from |-> from, to |-> to, payload |-> payload]

----------------------------------------------------------------------------
(* Mesh relay (group-video-call and expanded-video-call servers)            *)

\* function broadcast(roomId, message, excludePeerId): the sends it performs
broadcast(rms, rdy, roomId, message, excludePeerId) ==
  IF roomId \in DOMAIN rms
  THEN LET targets == SelectSeq(rms[roomId],
                        LAMBDA peer : peer.peerId # excludePeerId /\ rdy[peer.ws] = "OPEN")
       IN [i \in 1..Len(targets) |-> [to |-> targets[i].ws, msg |-> message]]
  ELSE << >>

\* function forwardToPeer(roomId, toPeerId, message): the sends it performs
forwardToPeer(rms, roomId, toPeerId, message) ==
  IF roomId \in DOMAIN rms /\ MapHas(rms[roomId], toPeerId)
     /\ readyState[MapGet(rms[roomId], toPeerId).ws] = "OPEN"
  THEN << [to |-> MapGet(rms[roomId], toPeerId).ws, msg |-> message] >>
  ELSE << >>

\* history of what each connection was told, derived from the sends of a step
RecordSends(out) ==
  /\ sent' = out
  /\ snapshot' = [w \in Conns |->
        IF \E i \in 1..Len(out) : out[i].to = w /\ out[i].msg.type = "room-peers"
        THEN LET i == CHOOSE j \in 1..Len(out) : out[j].to = w /\ out[j].msg.type = "room-peers"
             IN SeqRange(out[i].msg.peers)
        ELSE snapshot[w]]
  /\ notices' = [w \in Conns |->
        notices[w] \cup {out[i].msg.peerId : i \in {j \in 1..Len(out) :
                             out[j].to = w /\ out[j].msg.type = "peer-joined"}}]

\* case 'join'
JoinEffect(ws, roomId, peerId) ==
  LET rooms1 == IF roomId \in DOMAIN rooms THEN rooms ELSE (roomId :> << >>) @@ rooms
      room == rooms1[roomId]
      existingPeers == MapKeys(room)
      rooms2 == [rooms1 EXCEPT ![roomId] = MapSet(room, peerId, [peerId |-> peerId, ws |-> ws])]
  IN /\ currentRoomId' = [currentRoomId EXCEPT ![ws] = roomId]
     /\ currentPeerId' = [currentPeerId EXCEPT ![ws] = peerId]
     /\ rooms' = rooms2
     /\ joinedAt' = [joinedAt EXCEPT ![ws] = 1 + SetMax({joinedAt[w] : w \in Conns})]
     /\ RecordSends(<< [to |-> ws, msg |-> Envelope("room-peers", Nil, existingPeers, Nil, Nil, Nil)] >>
                    \o broadcast(rooms2, readyState, roomId, Envelope("peer-joined", peerId, << >>, Nil, Nil, Nil), peerId))

\* the message the relay passes on: the group server forwards the client's
\* envelope as received, the expanded server overwrites from
Forwarded(ws, type, from, to, payload) ==
  IF app = "group" THEN Envelope(type, Nil, << >>, from, to, payload)
  ELSE Envelope(type, Nil, << >>, currentPeerId[ws], to, payload)

\* case 'offer' / 'answer' / 'ice-candidate'
ForwardEffect(ws, type, from, to, payload) ==
  /\ UNCHANGED <<rooms, currentRoomId, currentPeerId, joinedAt>>
  /\ RecordSends(forwardToPeer(rooms, currentRoomId[ws], to, Forwarded(ws, type, from, to, payload)))

\* ws.on('close') without the deletion of a room that has become empty
CloseEffect_keepsRoom(ws) ==
  /\ UNCHANGED <<currentRoomId, currentPeerId, joinedAt>>
  /\ IF currentRoomId[ws] # Nil /\ currentPeerId[ws] # Nil /\ currentRoomId[ws] \in DOMAIN rooms
     THEN LET rid == currentRoomId[ws]
              room1 == MapDelete(rooms[rid], currentPeerId[ws])
              rooms1 == [rooms EXCEPT ![rid] = room1]
          IN /\ rooms' = rooms1
             /\ RecordSends(broadcast(rooms1, [readyState EXCEPT ![ws] = "CLOSED"], rid,
                              Envelope("peer-left", currentPeerId[ws], << >>, Nil, Nil, Nil),
                              currentPeerId[ws]))
     ELSE /\ rooms' = rooms
          /\ RecordSends(<< >>)

\* ws.on('close')
CloseEffect(ws) ==
  /\ UNCHANGED <<currentRoomId, currentPeerId, joinedAt>>
  /\ IF currentRoomId[ws] # Nil /\ currentPeerId[ws] # Nil /\ currentRoomId[ws] \in DOMAIN rooms
     THEN LET rid == currentRoomId[ws]
              room1 == MapDelete(rooms[rid], currentPeerId[ws])
              rooms1 == [rooms EXCEPT ![rid] = room1]
          IN /\ rooms' = IF Len(room1) = 0
                         THEN [r \in (DOMAIN rooms) \ {rid} |-> rooms[r]]
                         ELSE rooms1
             /\ RecordSends(broadcast(rooms1, [readyState EXCEPT ![ws] = "CLOSED"], rid,
                              Envelope("peer-left", currentPeerId[ws], << >>, Nil, Nil, Nil),
                              currentPeerId[ws]))
     ELSE /\ rooms' = rooms
          /\ RecordSends(<< >>)

----------------------------------------------------------------------------
(* Client session orchestrators: useWebRTC of group-video-call and          *)
(* expanded-video-call, useBroadcasterWebRTC of broadcast.                  *)
(*                                                                          *)
(* An async handler runs synchronously up to its first await of an          *)
(* RTCPeerConnection operation; the rest of it is a task that resumes in a  *)
(* later step, so other events interleave at every await.  A task holds the *)
(* RTCPeerConnection it captured; an operation on a connection that has     *)
(* been closed never resumes its handler.                                   *)

\* screen: a sender for the local screen-share track is attached;
\* restarts counts the calls of pc.restartIce(); connectionState is "new"
\* until the connection fails, and "connecting" once ICE has been restarted;
\* channel is the entry of dataChannelsRef for the remote peer: the expanded
\* hook sets it only for a connection that is in the table under the same
\* key and deletes it together with that connection
NoChannel == [by |-> Nil, to |-> Nil, id |-> 0]

\* the RTCDataChannel that pc.createDataChannel('chat') returns on connection
\* id of client l toward r
Channel(l, r, id) == [by |-> l, to |-> r, id |-> id]

NewPc(id) ==
  [id |-> id, localDescription |-> FALSE, remoteDescription |-> FALSE,
   signalingState |-> "stable", offers |-> 0, gathered |-> 0,
   connectionState |-> "new", restarts |-> 0, screen |-> FALSE, channel |-> NoChannel]

Task(op, remote, pc, step, sdp, queue, idx) ==
  [op |-> op, remote |-> remote, pc |-> pc, step |-> step, sdp |-> sdp, queue |-> queue, idx |-> idx]

MapRemove(f, k) == [x \in (DOMAIN f) \ {k} |-> f[x]]

\* setRemotePeers(prev => prev.find(...) ? prev : [...prev, entry])
AddRemotePeer(list, r) == IF r \in SeqRange(list) THEN list ELSE Append(list, r)

\* the RTCPeerConnection a task captured is still the open one in the table
Alive(l, t) ==
  /\ t.remote \in DOMAIN peerConnections[l]
  /\ peerConnections[l][t.remote].id = t.pc

\* const pending = pendingCandidatesRef.current.get(remotePeerId) || []
PendingOf(l, r) == IF r \in DOMAIN pendingCandidates[l] THEN pendingCandidates[l][r] ELSE << >>

\* the refs and state of client l that createPeerConnection reads and writes
Cur(l) ==
  [pcs |-> peerConnections[l], serial |-> pcSerial[l], open |-> openPcs[l],
   rp |-> remotePeers[l], tasks |-> tasks[l], screen |-> screenStream[l], self |-> l]

\* if (initiator) setupDataChannel(pc.createDataChannel('chat'), remotePeerId)
CreatedChannel(l, r, id, initiator) ==
  IF app = "expanded" /\ initiator THEN Channel(l, r, id) ELSE NoChannel

\* createPeerConnection without its guard
\* if (peerConnectionsRef.current.has(remotePeerId)) return
createPeerConnection_unguarded(st, r, initiator) ==
  LET id == st.serial + 1
  IN [pcs |-> (r :> [NewPc(id) EXCEPT !.screen = st.screen, !.channel = CreatedChannel(st.self, r, id, initiator)]) @@ st.pcs,
      serial |-> id,
      open |-> st.open \cup {<<r, id>>},
      rp |-> IF app = "group" /\ initiator THEN st.rp ELSE AddRemotePeer(st.rp, r),
      tasks |-> IF initiator
                THEN st.tasks \cup {Task("createPeerConnection", r, id, "createOffer", Nil, << >>, 0)}
                ELSE st.tasks,
      screen |-> st.screen,
      self |-> st.self]

\* useWebRTC.createPeerConnection up to its first await: the new values of
\* the connection table, remotePeers and the suspended handlers
createPeerConnection(st, r, initiator) ==
  IF r \in DOMAIN st.pcs
  THEN st
  ELSE LET id == st.serial + 1
       IN [pcs |-> (r :> [NewPc(id) EXCEPT !.screen = st.screen, !.channel = CreatedChannel(st.self, r, id, initiator)]) @@ st.pcs,
           serial |-> id,
           open |-> st.open \cup {<<r, id>>},
           \* the group hook adds the remotePeers entry after the offer is sent
           rp |-> IF app = "group" /\ initiator THEN st.rp ELSE AddRemotePeer(st.rp, r),
           tasks |-> IF initiator
                     THEN st.tasks \cup {Task("createPeerConnection", r, id, "createOffer", Nil, << >>, 0)}
                     ELSE st.tasks,
           \* if (screenStreamRef.current) its tracks are added to the new connection
           screen |-> st.screen,
           self |-> st.self]

\* the client's refs and state become st
Store(l, st) ==
  /\ peerConnections' = [peerConnections EXCEPT ![l] = st.pcs]
  /\ pcSerial' = [pcSerial EXCEPT ![l] = st.serial]
  /\ openPcs' = [openPcs EXCEPT ![l] = st.open]
  /\ remotePeers' = [remotePeers EXCEPT ![l] = st.rp]
  /\ tasks' = [tasks EXCEPT ![l] = st.tasks]

\* start of the drain loop after setRemoteDescription resolved:
\* for (const candidate of pending) await pc.addIceCandidate(candidate)
StartDrain(l, t, after) ==
  LET pending == PendingOf(l, t.remote)
  IN IF Len(pending) = 0
     THEN /\ pendingCandidates' = [pendingCandidates EXCEPT ![l] = MapRemove(@, t.remote)]
          /\ added' = added
          /\ tasks' = [tasks EXCEPT ![l] = (@ \ {t}) \cup after]
     ELSE /\ pendingCandidates' = pendingCandidates
          /\ added' = [added EXCEPT ![l][t.remote] = Append(@, pending[1])]
          /\ tasks' = [tasks EXCEPT ![l] = (@ \ {t}) \cup
                         {Task(t.op, t.remote, t.pc, "addIceCandidate", t.sdp, pending, 1)}]

\* handleOffer that stops after the drain and never answers
AfterDrain_silent(t) == {}

\* what handleOffer does once the queue is drained
AfterDrain(t) ==
  IF t.op = "handleOffer" THEN {Task(t.op, t.remote, t.pc, "createAnswer", t.sdp, << >>, 0)} ELSE {}

SetPc(l, r, pc) == [peerConnections EXCEPT ![l][r] = pc]

\* pc.onconnectionstatechange, called when pc.connectionState has become state
ConnectionStateChangeBody(l, r, state) ==
  LET pc == peerConnections[l][r]
  IN peerConnections' = SetPc(l, r,
        [pc EXCEPT !.connectionState = state,
                   !.restarts = IF state = "failed" THEN @ + 1 ELSE @])

\* useSignaling.send: the message goes out only if the socket is OPEN
sendSignaling(l, m) ==
  toRelay' = IF sock[l] # Nil /\ clientEnd[sock[l]] = "OPEN"
             THEN [toRelay EXCEPT ![sock[l]] = Append(@, m)]
             ELSE toRelay

Signal(type, from, to, payload) ==
  [type |-> type, roomId |-> Nil, peerId |-> Nil, from |-> from, to |-> to, payload |-> payload]

\* useWebRTC.createPeerConnection(remotePeerId, initiator)
CreatePeerConnectionBody(l, r, initiator) ==
  /\ Store(l, createPeerConnection(Cur(l), r, initiator))
  /\ UNCHANGED <<pendingCandidates, viewerCount, arrived, added, toRelay>>

\* useBroadcasterWebRTC.createConnectionForViewer(viewerPeerId, viewerUsername)
CreateConnectionForViewerBody(l, v) ==
  IF v \in DOMAIN peerConnections[l]
  THEN UNCHANGED <<clientVars, toRelay>>
  ELSE LET id == pcSerial[l] + 1
       IN /\ peerConnections' = [peerConnections EXCEPT ![l] = (v :> NewPc(id)) @@ @]
          /\ pcSerial' = [pcSerial EXCEPT ![l] = id]
          /\ openPcs' = [openPcs EXCEPT ![l] = @ \cup {<<v, id>>}]
          /\ remotePeers' = [remotePeers EXCEPT ![l] = AddRemotePeer(@, v)]
          /\ viewerCount' = [viewerCount EXCEPT ![l] = @ + 1]
          /\ tasks' = [tasks EXCEPT ![l] = @ \cup
                         {Task("createConnectionForViewer", v, id, "createOffer", Nil, << >>, 0)}]
          /\ UNCHANGED <<pendingCandidates, arrived, added, toRelay>>

\* handleOffer that makes a new RTCPeerConnection for every offer
HandleOfferBody_replaces(l, r, sdp) ==
  LET c == createPeerConnection_unguarded(Cur(l), r, FALSE)
  IN /\ Store(l, [c EXCEPT !.tasks = @ \cup
                   {Task("handleOffer", r, c.pcs[r].id, "setRemoteDescription", sdp, << >>, 0)}])
     /\ UNCHANGED <<pendingCandidates, viewerCount, arrived, added, toRelay>>

\* useWebRTC.handleOffer(remotePeerId, sdp) up to await pc.setRemoteDescription
HandleOfferBody(l, r, sdp) ==
  LET c == createPeerConnection(Cur(l), r, FALSE)
  IN /\ Store(l, [c EXCEPT !.tasks = @ \cup
                   {Task("handleOffer", r, c.pcs[r].id, "setRemoteDescription", sdp, << >>, 0)}])
     /\ UNCHANGED <<pendingCandidates, viewerCount, arrived, added, toRelay>>

\* the viewer hook holds one RTCPeerConnection, for the peer it names 'broadcaster'
BroadcasterKey == "broadcaster"

\* handleOffer that creates the session and never applies the offer
ViewerHandleOfferBody_dropsOffer(l, sdp) ==
  LET fresh == BroadcasterKey \notin DOMAIN peerConnections[l]
      id == IF fresh THEN pcSerial[l] + 1 ELSE peerConnections[l][BroadcasterKey].id
  IN /\ peerConnections' = [peerConnections EXCEPT ![l] =
                              IF fresh THEN (BroadcasterKey :> NewPc(id)) @@ @ ELSE @]
     /\ pcSerial' = [pcSerial EXCEPT ![l] = IF fresh THEN id ELSE @]
     /\ openPcs' = [openPcs EXCEPT ![l] = @ \cup {<<BroadcasterKey, id>>}]
     /\ UNCHANGED <<tasks, pendingCandidates, remotePeers, viewerCount, arrived, added, toRelay>>

\* useViewerWebRTC.handleOffer(sdp) up to await pc.setRemoteDescription
ViewerHandleOfferBody(l, sdp) ==
  LET fresh == BroadcasterKey \notin DOMAIN peerConnections[l]
      id == IF fresh THEN pcSerial[l] + 1 ELSE peerConnections[l][BroadcasterKey].id
  IN /\ peerConnections' = [peerConnections EXCEPT ![l] =
                              IF fresh THEN (BroadcasterKey :> NewPc(id)) @@ @ ELSE @]
     /\ pcSerial' = [pcSerial EXCEPT ![l] = IF fresh THEN id ELSE @]
     /\ openPcs' = [openPcs EXCEPT ![l] = @ \cup {<<BroadcasterKey, id>>}]
     /\ tasks' = [tasks EXCEPT ![l] = @ \cup
                    {Task("handleOffer", BroadcasterKey, id, "setRemoteDescription", sdp, << >>, 0)}]
     /\ UNCHANGED <<pendingCandidates, remotePeers, viewerCount, arrived, added, toRelay>>

\* handleAnswer(remotePeerId, sdp) up to await pc.setRemoteDescription
HandleAnswerBody(l, r, sdp) ==
  IF r \notin DOMAIN peerConnections[l]
  THEN UNCHANGED <<clientVars, toRelay>>
  ELSE /\ tasks' = [tasks EXCEPT ![l] = @ \cup
                      {Task("handleAnswer", r, peerConnections[l][r].id, "setRemoteDescription", sdp, << >>, 0)}]
       /\ UNCHANGED <<peerConnections, pendingCandidates, remotePeers, viewerCount, pcSerial,
                      openPcs, arrived, added, toRelay>>

\* handleIceCandidate(remotePeerId, candidate)
HandleIceCandidateBody(l, r, candidate) ==
  /\ arrived' = [arrived EXCEPT ![l][r] = Append(@, candidate)]
  /\ IF r \in DOMAIN peerConnections[l] /\ peerConnections[l][r].remoteDescription
     THEN /\ added' = [added EXCEPT ![l][r] = Append(@, candidate)]
          /\ pendingCandidates' = pendingCandidates
     ELSE /\ added' = added
          /\ pendingCandidates' = [pendingCandidates EXCEPT ![l] =
                                     (r :> Append(PendingOf(l, r), candidate)) @@ @]
  /\ UNCHANGED <<peerConnections, remotePeers, viewerCount, tasks, pcSerial, openPcs, toRelay>>

\* pc.close(): the operations pending on the closed connections never
\* settle, so the handlers awaiting them are gone
Settled(ts, closed) == {t \in ts : t.remote \notin closed}

\* removePeer that keeps the queue of pending candidates
RemovePeerBody_keepsQueue(l, r) ==
  /\ peerConnections' = [peerConnections EXCEPT ![l] = MapRemove(@, r)]
  /\ openPcs' = [openPcs EXCEPT ![l] =
                   IF r \in DOMAIN peerConnections[l] THEN @ \ {<<r, peerConnections[l][r].id>>} ELSE @]
  /\ remotePeers' = [remotePeers EXCEPT ![l] = SelectSeq(@, LAMBDA p : p # r)]
  /\ tasks' = [tasks EXCEPT ![l] = Settled(@, {r})]
  /\ UNCHANGED <<pendingCandidates, viewerCount, pcSerial, arrived, added, toRelay>>

\* removePeer(remotePeerId)
RemovePeerBody(l, r) ==
  /\ peerConnections' = [peerConnections EXCEPT ![l] = MapRemove(@, r)]
  /\ openPcs' = [openPcs EXCEPT ![l] =
                   IF r \in DOMAIN peerConnections[l] THEN @ \ {<<r, peerConnections[l][r].id>>} ELSE @]
  /\ pendingCandidates' = [pendingCandidates EXCEPT ![l] = MapRemove(@, r)]
  /\ remotePeers' = [remotePeers EXCEPT ![l] = SelectSeq(@, LAMBDA p : p # r)]
  /\ tasks' = [tasks EXCEPT ![l] = Settled(@, {r})]
  /\ UNCHANGED <<viewerCount, pcSerial, arrived, added, toRelay>>

\* removeViewer(viewerPeerId)
RemoveViewerBody(l, v) ==
  /\ peerConnections' = [peerConnections EXCEPT ![l] = MapRemove(@, v)]
  /\ openPcs' = [openPcs EXCEPT ![l] =
                   IF v \in DOMAIN peerConnections[l] THEN @ \ {<<v, peerConnections[l][v].id>>} ELSE @]
  /\ pendingCandidates' = [pendingCandidates EXCEPT ![l] = MapRemove(@, v)]
  /\ remotePeers' = [remotePeers EXCEPT ![l] = SelectSeq(@, LAMBDA p : p # v)]
  /\ viewerCount' = [viewerCount EXCEPT ![l] = IF @ - 1 > 0 THEN @ - 1 ELSE 0]
  /\ tasks' = [tasks EXCEPT ![l] = Settled(@, {v})]
  /\ UNCHANGED <<pcSerial, arrived, added, toRelay>>

\* closeAllConnections() of the mesh hooks and of the broadcaster hook: the
\* viewer hook keeps its connection in a ref of its own, modelled as the entry
\* under BroadcasterKey, which this function does not touch
CloseAllConnectionsBody(l) ==
  /\ peerConnections' = [peerConnections EXCEPT ![l] = [k \in (DOMAIN @) \ Clients |-> @[k]]]
  /\ openPcs' = [openPcs EXCEPT ![l] =
                   @ \ {<<r, peerConnections[l][r].id>> : r \in (DOMAIN peerConnections[l]) \cap Clients}]
  /\ pendingCandidates' = [pendingCandidates EXCEPT ![l] = [k \in (DOMAIN @) \ Clients |-> @[k]]]
  /\ remotePeers' = [remotePeers EXCEPT ![l] = << >>]
  /\ viewerCount' = [viewerCount EXCEPT ![l] = IF app = "broadcast" THEN 0 ELSE @]
  /\ tasks' = [tasks EXCEPT ![l] = Settled(@, Clients)]
  /\ UNCHANGED <<pcSerial, arrived, added>>

\* useViewerWebRTC.closeConnection
CloseConnectionBody(l) ==
  /\ peerConnections' = [peerConnections EXCEPT ![l] = MapRemove(@, BroadcasterKey)]
  /\ openPcs' = [openPcs EXCEPT ![l] =
                   IF BroadcasterKey \in DOMAIN peerConnections[l]
                   THEN @ \ {<<BroadcasterKey, peerConnections[l][BroadcasterKey].id>>}
                   ELSE @]
  /\ pendingCandidates' = [pendingCandidates EXCEPT ![l] = MapRemove(@, BroadcasterKey)]
  /\ tasks' = [tasks EXCEPT ![l] = Settled(@, {BroadcasterKey})]
  /\ UNCHANGED <<remotePeers, viewerCount, pcSerial, arrived, added>>

\* broadcasterWebRTC.closeAllConnections() and viewerWebRTC.closeConnection()
\* in one handler
CloseBothBody(l) ==
  /\ peerConnections' = [peerConnections EXCEPT ![l] = << >>]
  /\ openPcs' = [openPcs EXCEPT ![l] =
                   @ \ {<<r, peerConnections[l][r].id>> : r \in DOMAIN peerConnections[l]}]
  /\ pendingCandidates' = [pendingCandidates EXCEPT ![l] = << >>]
  /\ remotePeers' = [remotePeers EXCEPT ![l] = << >>]
  /\ viewerCount' = [viewerCount EXCEPT ![l] = 0]
  /\ tasks' = [tasks EXCEPT ![l] = {}]
  /\ UNCHANGED <<pcSerial, arrived, added>>

\* the handlers that addScreenShareTrack / removeScreenShareTrack start, one
\* for each entry of peerConnectionsRef, each suspended at await pc.createOffer()
Renegotiations(l, op) ==
  {Task(op, r, peerConnections[l][r].id, "createOffer", Nil, << >>, 0) : r \in DOMAIN peerConnections[l]}

\* addScreenShareTrack(stream)
AddScreenShareTrackBody(l) ==
  /\ peerConnections' = [peerConnections EXCEPT ![l] =
                            [r \in DOMAIN @ |-> [@[r] EXCEPT !.screen = TRUE]]]
  /\ tasks' = [tasks EXCEPT ![l] = @ \cup Renegotiations(l, "addScreenShareTrack")]
  /\ UNCHANGED <<pendingCandidates, remotePeers, viewerCount, pcSerial, openPcs, arrived, added>>

\* removeScreenShareTrack() past its guard if (!screenStreamRef.current) return
RemoveScreenShareTrackBody(l) ==
  /\ peerConnections' = [peerConnections EXCEPT ![l] =
                            [r \in DOMAIN @ |-> [@[r] EXCEPT !.screen = FALSE]]]
  /\ tasks' = [tasks EXCEPT ![l] = @ \cup Renegotiations(l, "removeScreenShareTrack")]
  /\ UNCHANGED <<pendingCandidates, remotePeers, viewerCount, pcSerial, openPcs, arrived, added>>

\* a rejected (or never settled) operation ends the handler
Drop(l, t) ==
  /\ tasks' = [tasks EXCEPT ![l] = @ \ {t}]
  /\ UNCHANGED <<peerConnections, pendingCandidates, remotePeers, viewerCount, pcSerial,
                 openPcs, arrived, added, toRelay>>

\* await pc.createOffer() / await pc.createAnswer() resolved
OperationCreated(l, t) ==
  LET pc == peerConnections[l][t.remote]
      \* createOffer succeeds on any open connection, createAnswer needs a remote offer
      ok == t.step = "createOffer" \/ pc.signalingState = "have-remote-offer"
  IN IF ok
     THEN /\ tasks' = [tasks EXCEPT ![l] = (@ \ {t}) \cup
                         {Task(t.op, t.remote, t.pc, "setLocalDescription", t.sdp, << >>, 0)}]
          /\ UNCHANGED <<peerConnections, pendingCandidates, remotePeers, viewerCount, pcSerial,
                         openPcs, arrived, added, toRelay>>
     ELSE Drop(l, t)

\* the offer of a connection: it describes the screen-share track if a sender
\* for it is attached
OfferSdp(pc) == IF pc.screen THEN "offer+screen" ELSE "offer"

\* await pc.setLocalDescription(offer) resolved: the (initial) offer is sent
LocalOfferSet(l, t) ==
  LET pc == peerConnections[l][t.remote]
  IN IF pc.signalingState \in {"stable", "have-local-offer"}
     THEN /\ peerConnections' = SetPc(l, t.remote,
                [pc EXCEPT !.localDescription = TRUE, !.signalingState = "have-local-offer",
                            !.offers = @ + 1])
          /\ sendSignaling(l, Signal("offer", l, t.remote, OfferSdp(pc)))
          /\ remotePeers' = [remotePeers EXCEPT ![l] =
                               IF app = "group" THEN AddRemotePeer(@, t.remote) ELSE @]
          /\ tasks' = [tasks EXCEPT ![l] = @ \ {t}]
          /\ UNCHANGED <<pendingCandidates, viewerCount, pcSerial, openPcs, arrived, added>>
     ELSE Drop(l, t)

\* pc.connectionState once an offer/answer exchange has completed: on a failed
\* connection the exchange may have restarted ICE (the remote offer asked for
\* it, or restartIce() had marked the next local offer), or not
AfterNegotiation(pc) ==
  IF pc.connectionState = "failed" THEN {"failed", "connecting"} ELSE {pc.connectionState}

\* await pc.setLocalDescription(answer) resolved: the answer is sent
LocalAnswerSet(l, t) ==
  LET pc == peerConnections[l][t.remote]
  IN IF pc.signalingState = "have-remote-offer"
     THEN /\ \E cs \in AfterNegotiation(pc) :
               peerConnections' = SetPc(l, t.remote,
                  [pc EXCEPT !.localDescription = TRUE, !.signalingState = "stable",
                             !.connectionState = cs])
          /\ sendSignaling(l, Signal("answer", l, t.remote, "answer"))
          /\ tasks' = [tasks EXCEPT ![l] = @ \ {t}]
          /\ UNCHANGED <<pendingCandidates, remotePeers, viewerCount, pcSerial, openPcs, arrived, added>>
     ELSE Drop(l, t)

\* await pc.setRemoteDescription(sdp) resolved; pc.ontrack may have fired;
\* the handler goes on to drain the pending candidates.  A remote offer that
\* meets a local offer is applied by rollback or rejected, as the browser does.
RemoteDescriptionSet(l, t) ==
  LET pc == peerConnections[l][t.remote]
  IN \E rollback \in BOOLEAN, track \in BOOLEAN :
       IF t.op = "handleOffer"
       THEN IF pc.signalingState = "have-local-offer" /\ ~rollback
            THEN Drop(l, t)
            ELSE /\ peerConnections' = SetPc(l, t.remote,
                       [pc EXCEPT !.remoteDescription = TRUE, !.signalingState = "have-remote-offer"])
                 /\ remotePeers' = [remotePeers EXCEPT ![l] =
                                      IF track /\ app # "broadcast" THEN AddRemotePeer(@, t.remote) ELSE @]
                 /\ StartDrain(l, t, AfterDrain(t))
                 /\ UNCHANGED <<viewerCount, pcSerial, openPcs, arrived, toRelay>>
       ELSE IF pc.signalingState # "have-local-offer"
            THEN Drop(l, t)
            ELSE /\ \E cs \in AfterNegotiation(pc) :
                      peerConnections' = SetPc(l, t.remote,
                         [pc EXCEPT !.remoteDescription = TRUE, !.signalingState = "stable",
                                    !.connectionState = cs])
                 /\ remotePeers' = [remotePeers EXCEPT ![l] =
                                      IF track /\ app # "broadcast" THEN AddRemotePeer(@, t.remote) ELSE @]
                 /\ StartDrain(l, t, AfterDrain(t))
                 /\ UNCHANGED <<viewerCount, pcSerial, openPcs, arrived, toRelay>>

\* await pc.addIceCandidate(candidate) resolved inside the drain loop
CandidateAdded(l, t) ==
  IF t.idx < Len(t.queue)
  THEN /\ added' = [added EXCEPT ![l][t.remote] = Append(@, t.queue[t.idx + 1])]
       /\ tasks' = [tasks EXCEPT ![l] = (@ \ {t}) \cup
                      {Task(t.op, t.remote, t.pc, "addIceCandidate", t.sdp, t.queue, t.idx + 1)}]
       /\ UNCHANGED <<peerConnections, pendingCandidates, remotePeers, viewerCount, pcSerial,
                      openPcs, arrived, toRelay>>
  ELSE /\ pendingCandidates' = [pendingCandidates EXCEPT ![l] = MapRemove(@, t.remote)]
       /\ tasks' = [tasks EXCEPT ![l] = (@ \ {t}) \cup AfterDrain(t)]
       /\ UNCHANGED <<peerConnections, remotePeers, viewerCount, pcSerial, openPcs, arrived,
                      added, toRelay>>

\* one suspended handler resumes after its awaited operation
Resume(l, t) ==
  /\ t \in tasks[l]
  /\ IF ~Alive(l, t) THEN Drop(l, t)
     ELSE CASE t.step \in {"createOffer", "createAnswer"} -> OperationCreated(l, t)
            [] t.step = "setLocalDescription" /\ t.op = "handleOffer" -> LocalAnswerSet(l, t)
            [] t.step = "setLocalDescription" /\ t.op # "handleOffer" -> LocalOfferSet(l, t)
            [] t.step = "setRemoteDescription" -> RemoteDescriptionSet(l, t)
            [] t.step = "addIceCandidate" -> CandidateAdded(l, t)

----------------------------------------------------------------------------
(* Broadcast relay (the server of the broadcast example)                    *)

\* a message of the broadcast relay: every message has the same fields,
\* unused ones are Nil (isLive, which a message without it reads as falsy, is
\* FALSE)
CastMessage(type, broadcastId, peerId, from, count, live, payload) ==
  [type |-> type, broadcastId |-> broadcastId, peerId |-> peerId, from |-> from,
   count |-> count, isLive |-> live, payload |-> payload]

\* interface BroadcastRoom
BroadcastRoom(peerId, ws) ==
  [broadcaster |-> [peerId |-> peerId, ws |-> ws], viewers |-> << >>, isLive |-> FALSE]

\* room.viewers.forEach(viewer => if (viewer.ws.readyState === OPEN) viewer.ws.send(message))
ToViewers(room, rdy, message) ==
  LET targets == SelectSeq(room.viewers, LAMBDA viewer : rdy[viewer.ws] = "OPEN")
  IN [i \in 1..Len(targets) |-> [to |-> targets[i].ws, msg |-> message]]

\* if (room.broadcaster && room.broadcaster.ws.readyState === OPEN) { send each of msgs }
ToBroadcaster(room, rdy, msgs) ==
  IF rdy[room.broadcaster.ws] = "OPEN"
  THEN [i \in 1..Len(msgs) |-> [to |-> room.broadcaster.ws, msg |-> msgs[i]]]
  ELSE << >>

\* case 'create-broadcast'; broadcastId is the value of generateBroadcastId()
CreateBroadcastEffect(ws, peerId, broadcastId) ==
  /\ currentBroadcastId' = [currentBroadcastId EXCEPT ![ws] = broadcastId]
  /\ currentPeerId' = [currentPeerId EXCEPT ![ws] = peerId]
  /\ currentRole' = [currentRole EXCEPT ![ws] = "broadcaster"]
  /\ broadcasts' = (broadcastId :> BroadcastRoom(peerId, ws)) @@ broadcasts
  /\ sent' = << [to |-> ws, msg |-> CastMessage("broadcast-created", broadcastId, Nil, Nil, Nil, FALSE, Nil)] >>

\* start-broadcast / end-broadcast that set room.isLive without notifying the
\* viewers
SetLiveEffect_silent(ws, broadcastId, live) ==
  /\ UNCHANGED <<currentBroadcastId, currentPeerId, currentRole>>
  /\ sent' = << >>
  /\ broadcasts' = IF broadcastId \in DOMAIN broadcasts
                       /\ broadcasts[broadcastId].broadcaster.peerId = currentPeerId[ws]
                    THEN [broadcasts EXCEPT ![broadcastId].isLive = live]
                    ELSE broadcasts

\* case 'start-broadcast' (live = TRUE) and case 'end-broadcast' (live = FALSE)
SetLiveEffect(ws, broadcastId, live) ==
  /\ UNCHANGED <<currentBroadcastId, currentPeerId, currentRole>>
  /\ IF broadcastId \in DOMAIN broadcasts /\ broadcasts[broadcastId].broadcaster.peerId = currentPeerId[ws]
     THEN /\ broadcasts' = [broadcasts EXCEPT ![broadcastId].isLive = live]
          /\ sent' = ToViewers(broadcasts[broadcastId], readyState,
                        CastMessage(IF live THEN "broadcast-started" ELSE "broadcast-ended",
                                    broadcastId, Nil, Nil, Nil, FALSE, Nil))
     ELSE /\ broadcasts' = broadcasts
          /\ sent' = << >>

\* case 'join-broadcast'
JoinBroadcastEffect(ws, broadcastId, peerId) ==
  IF broadcastId \notin DOMAIN broadcasts
  THEN /\ sent' = << [to |-> ws, msg |-> CastMessage("error", Nil, Nil, Nil, Nil, FALSE, Nil)] >>
       /\ UNCHANGED <<broadcasts, currentBroadcastId, currentPeerId, currentRole>>
  ELSE LET room == broadcasts[broadcastId]
           room1 == [room EXCEPT !.viewers = MapSet(room.viewers, peerId, [peerId |-> peerId, ws |-> ws])]
       IN /\ currentBroadcastId' = [currentBroadcastId EXCEPT ![ws] = broadcastId]
          /\ currentPeerId' = [currentPeerId EXCEPT ![ws] = peerId]
          /\ currentRole' = [currentRole EXCEPT ![ws] = "viewer"]
          /\ broadcasts' = [broadcasts EXCEPT ![broadcastId] = room1]
          /\ sent' = << [to |-> ws, msg |-> CastMessage("broadcast-info", broadcastId, Nil, Nil, Nil, room.isLive, Nil)] >>
                     \o ToBroadcaster(room1, readyState,
                          << CastMessage("viewer-joined", Nil, peerId, Nil, Nil, FALSE, Nil),
                             CastMessage("viewer-count", Nil, Nil, Nil, Len(room1.viewers), FALSE, Nil) >>)

\* case 'leave-broadcast'
LeaveBroadcastEffect(ws, broadcastId, peerId) ==
  /\ UNCHANGED <<currentBroadcastId, currentPeerId, currentRole>>
  /\ IF broadcastId \in DOMAIN broadcasts
     THEN LET room == broadcasts[broadcastId]
              room1 == [room EXCEPT !.viewers = MapDelete(room.viewers, peerId)]
          IN /\ broadcasts' = [broadcasts EXCEPT ![broadcastId] = room1]
             /\ sent' = ToBroadcaster(room1, readyState,
                          << CastMessage("viewer-left", Nil, peerId, Nil, Nil, FALSE, Nil),
                             CastMessage("viewer-count", Nil, Nil, Nil, Len(room1.viewers), FALSE, Nil) >>)
     ELSE /\ broadcasts' = broadcasts
          /\ sent' = << >>

\* viewer.ws.send(...) for room.viewers.get(to), if it exists and is open
ToViewer(room, to, message) ==
  IF MapHas(room.viewers, to) /\ readyState[MapGet(room.viewers, to).ws] = "OPEN"
  THEN << [to |-> MapGet(room.viewers, to).ws, msg |-> message] >>
  ELSE << >>

\* case 'offer', case 'answer', case 'ice-candidate'
CastSignalEffect(ws, type, to, payload) ==
  /\ UNCHANGED <<broadcasts, currentBroadcastId, currentPeerId, currentRole>>
  /\ IF currentBroadcastId[ws] \in DOMAIN broadcasts
     THEN LET room == broadcasts[currentBroadcastId[ws]]
              message == CastMessage(type, Nil, Nil, currentPeerId[ws], Nil, FALSE, payload)
          IN sent' = CASE type = "offer" -> ToViewer(room, to, message)
                       [] type = "answer" -> ToBroadcaster(room, readyState, << message >>)
                       [] OTHER -> IF currentRole[ws] = "broadcaster"
                                   THEN ToViewer(room, to, message)
                                   ELSE ToBroadcaster(room, readyState, << message >>)
     ELSE sent' = << >>

\* case 'chat-message': one chatMsg object is built and sent to the
\* broadcaster and to every viewer of the broadcast the message names
ChatEffect(ws, broadcastId, text) ==
  /\ UNCHANGED <<broadcasts, currentBroadcastId, currentPeerId, currentRole>>
  /\ IF broadcastId \in DOMAIN broadcasts
     THEN LET room == broadcasts[broadcastId]
              chatMsg == CastMessage("chat", Nil, Nil, currentPeerId[ws], Nil, FALSE, text)
          IN sent' = ToBroadcaster(room, readyState, << chatMsg >>)
                       \o ToViewers(room, readyState, chatMsg)
     ELSE sent' = << >>

\* ws.on('close') of the broadcast relay
CastCloseEffect(ws) ==
  LET rdy == [readyState EXCEPT ![ws] = "CLOSED"]
      bid == currentBroadcastId[ws]
  IN /\ UNCHANGED <<currentBroadcastId, currentPeerId, currentRole>>
     /\ IF bid # Nil /\ currentPeerId[ws] # Nil /\ bid \in DOMAIN broadcasts
        THEN IF currentRole[ws] = "broadcaster"
             THEN /\ broadcasts' = [broadcasts EXCEPT ![bid].isLive = FALSE]
                  /\ sent' = ToViewers(broadcasts[bid], rdy,
                                CastMessage("broadcast-ended", bid, Nil, Nil, Nil, FALSE, Nil))
                  /\ cleanup' = [cleanup EXCEPT ![ws] = "armed"]
             ELSE LET room1 == [broadcasts[bid] EXCEPT !.viewers = MapDelete(@, currentPeerId[ws])]
                  IN /\ broadcasts' = [broadcasts EXCEPT ![bid] = room1]
                     /\ sent' = ToBroadcaster(room1, rdy,
                                  << CastMessage("viewer-left", Nil, currentPeerId[ws], Nil, Nil, FALSE, Nil),
                                     CastMessage("viewer-count", Nil, Nil, Nil, Len(room1.viewers), FALSE, Nil) >>)
                     /\ cleanup' = cleanup
        ELSE /\ broadcasts' = broadcasts
             /\ sent' = << >>
             /\ cleanup' = cleanup

\* the callback of setTimeout(..., 30000) in the broadcaster branch of close
CleanupEffect(ws) ==
  LET bid == currentBroadcastId[ws]
  IN broadcasts' = IF bid \in DOMAIN broadcasts /\ ~broadcasts[bid].isLive
                      /\ Len(broadcasts[bid].viewers) = 0
                   THEN [b \in (DOMAIN broadcasts) \ {bid} |-> broadcasts[b]]
                   ELSE broadcasts

\* JSON.parse(data.toString()): throws on text that is not JSON
JSONparse(data) ==
  CASE data = "{" -> [threw |-> TRUE, kind |-> Nil, type |-> Nil]
    [] data = "null" -> [threw |-> FALSE, kind |-> "null", type |-> Nil]
    [] data = "42" -> [threw |-> FALSE, kind |-> "number", type |-> Nil]
    [] OTHER -> [threw |-> FALSE, kind |-> "object", type |-> "dance"]

\* how the body of try { ... } ends for a frame that no case handles:
\* message.type throws on null and is undefined on a number
Outcome(data) ==
  LET message == JSONparse(data)
  IN IF message.threw \/ message.kind = "null" THEN "threw" ELSE "no case"

\* ws.on('message') without the try/catch: the exception leaves the handler
\* and ends the server process, with it every connection and the registry
MalformedEffect_uncaught(ws, data) ==
  /\ UNCHANGED <<currentRoomId, currentPeerId, currentBroadcastId, currentRole,
                 snapshot, notices, joinedAt, cleanup>>
  /\ sent' = << >>
  /\ IF Outcome(data) = "threw"
     THEN /\ readyState' = [w \in Conns |-> "CLOSED"]
          /\ rooms' = << >>
          /\ broadcasts' = << >>
     ELSE UNCHANGED <<readyState, rooms, broadcasts>>

\* ws.on('message') of either relay on a frame that no case handles: the
\* switch falls through, or catch logs the exception
MalformedEffect(ws, data) ==
  /\ UNCHANGED <<currentRoomId, currentPeerId, currentBroadcastId, currentRole,
                 snapshot, notices, joinedAt, cleanup>>
  /\ sent' = << >>
  /\ Outcome(data) \in {"threw", "no case"}
  /\ UNCHANGED <<readyState, rooms, broadcasts>>

----------------------------------------------------------------------------
(* The relay alone: any open connection may send any join or signaling     *)
(* message; a socket may start closing and its close event is handled.     *)

RelayJoin(ws, roomId, peerId) ==
  /\ received < MaxEvents
  /\ received' = received + 1
  /\ readyState[ws] = "OPEN"
  /\ JoinEffect(ws, roomId, peerId)
  /\ UNCHANGED <<app, viewRef, chatVars, castState, appVars, shareVars, readyState, clientVars, netVars>>
  /\ frame' = NoFrame

RelayForward(ws, type, from, to, payload) ==
  /\ received < MaxEvents
  /\ received' = received + 1
  /\ readyState[ws] = "OPEN"
  /\ ForwardEffect(ws, type, from, to, payload)
  /\ UNCHANGED <<app, viewRef, chatVars, castState, appVars, shareVars, readyState, clientVars, netVars>>
  /\ frame' = NoFrame

\* the closing handshake has begun: readyState is CLOSING until 'close' fires
SocketClosing(ws) ==
  /\ received < MaxEvents
  /\ received' = received + 1
  /\ readyState[ws] = "OPEN"
  /\ readyState' = [readyState EXCEPT ![ws] = "CLOSING"]
  /\ UNCHANGED <<app, viewRef, chatVars, castState, appVars, shareVars, rooms, currentRoomId, currentPeerId, sent, snapshot, notices, joinedAt, clientVars, netVars>>
  /\ frame' = NoFrame

RelayClose(ws) ==
  /\ received < MaxEvents
  /\ received' = received + 1
  /\ readyState[ws] \in {"OPEN", "CLOSING"}
  /\ readyState' = [readyState EXCEPT ![ws] = "CLOSED"]
  /\ CloseEffect(ws)
  /\ UNCHANGED <<app, viewRef, chatVars, castState, appVars, shareVars, clientVars, netVars>>
  /\ frame' = NoFrame

RelayInit ==
  /\ rooms = << >>
  /\ currentRoomId = [w \in Conns |-> Nil]
  /\ currentPeerId = [w \in Conns |-> Nil]
  /\ readyState = [w \in Conns |-> "OPEN"]
  /\ sent = << >>
  /\ snapshot = [w \in Conns |-> {}]
  /\ notices = [w \in Conns |-> {}]
  /\ joinedAt = [w \in Conns |-> 0]

CastInit ==
  /\ broadcasts = << >>
  /\ currentBroadcastId = [w \in Conns |-> Nil]
  /\ currentRole = [w \in Conns |-> Nil]
  /\ cleanup = [w \in Conns |-> "unset"]
  /\ left = {}
  /\ frame = NoFrame
  /\ view = [l \in Clients |-> "home"]
  /\ viewRef = [l \in Clients |-> Nil]
  /\ appBroadcastId = [l \in Clients |-> Nil]
  /\ sendTimer = [l \in Clients |-> << >>]
  /\ joinedLive = {}
  /\ isLive = [l \in Clients |-> FALSE]

ShareInit ==
  /\ screenStream = [l \in Clients |-> FALSE]
  /\ isScreenSharing = {}
  /\ remoteScreen = [l \in Clients |-> {}]
  /\ reportedSharing = [w \in Conns |-> {}]

ChatInit ==
  /\ opened = {}
  /\ announced = {}
  /\ wire = [x \in Clients \X Clients |-> << >>]
  /\ messages = [l \in Clients |-> << >>]
  /\ posted = {}

ClientInit ==
  /\ peerConnections = [l \in Clients |-> << >>]
  /\ pendingCandidates = [l \in Clients |-> << >>]
  /\ remotePeers = [l \in Clients |-> << >>]
  /\ viewerCount = [l \in Clients |-> 0]
  /\ tasks = [l \in Clients |-> {}]
  /\ pcSerial = [l \in Clients |-> 0]
  /\ openPcs = [l \in Clients |-> {}]
  /\ arrived = [l \in Clients |-> [r \in Clients \cup {BroadcasterKey} |-> << >>]]
  /\ added = [l \in Clients |-> [r \in Clients \cup {BroadcasterKey} |-> << >>]]
  /\ sock = [l \in Clients |-> Nil]
  /\ clientEnd = [w \in Conns |-> "NEW"]
  /\ isJoined = [l \in Clients |-> FALSE]
  /\ toRelay = [w \in Conns |-> << >>]
  /\ toClient = [w \in Conns |-> << >>]

InitRelay ==
  /\ app \in MeshApps
  /\ received = 0
  /\ RelayInit
  /\ ClientInit
  /\ CastInit
  /\ ShareInit
  /\ ChatInit

NextRelay ==
  \/ \E ws \in Conns, roomId \in RoomIds, peerId \in PeerIds : RelayJoin(ws, roomId, peerId)
  \/ \E ws \in Conns, type \in SignalTypes, from \in PeerIds, to \in PeerIds, payload \in Payloads :
        RelayForward(ws, type, from, to, payload)
  \/ \E ws \in Conns : SocketClosing(ws)
  \/ \E ws \in Conns : RelayClose(ws)

vars == <<app, viewRef, relayVars, received, clientVars, netVars, castVars, shareVars, chatVars>>

SpecRelay == InitRelay /\ [][NextRelay]_vars

----------------------------------------------------------------------------
(* The broadcast relay alone: any open connection may send any message of   *)
(* the protocol, with any broadcastId and peerId; sockets close; the        *)
(* cleanup timer of a closed broadcaster may fire at any later time.        *)

\* connection ws is a viewer whose context names broadcastId and peerId, and
\* the viewers table of that broadcast holds the entry that its join made
OwnEntry(ws, broadcastId, peerId) ==
  /\ currentRole[ws] = "viewer"
  /\ currentBroadcastId[ws] = broadcastId
  /\ currentPeerId[ws] = peerId
  /\ broadcastId \in DOMAIN broadcasts
  /\ MapHas(broadcasts[broadcastId].viewers, peerId)
  /\ MapGet(broadcasts[broadcastId].viewers, peerId).ws = ws

CastFrame(ws, type) ==
  /\ app = "broadcast"
  /\ received < MaxCastEvents
  /\ received' = received + 1
  /\ readyState[ws] = "OPEN"
  /\ frame' = [ws |-> ws, type |-> type]
  /\ UNCHANGED <<app, viewRef, chatVars, rooms, currentRoomId, readyState, snapshot, notices, joinedAt, cleanup,
                 clientVars, netVars, appVars, shareVars>>

CastCreateBroadcast(ws, peerId, broadcastId) ==
  /\ CastFrame(ws, "create-broadcast")
  /\ left' = left \ {ws}
  /\ CreateBroadcastEffect(ws, peerId, broadcastId)

CastStartBroadcast(ws, broadcastId) ==
  /\ CastFrame(ws, "start-broadcast")
  /\ left' = left
  /\ SetLiveEffect(ws, broadcastId, TRUE)

CastEndBroadcast(ws, broadcastId) ==
  /\ CastFrame(ws, "end-broadcast")
  /\ left' = left
  /\ SetLiveEffect(ws, broadcastId, FALSE)

CastJoinBroadcast(ws, broadcastId, peerId) ==
  /\ CastFrame(ws, "join-broadcast")
  /\ left' = IF broadcastId \in DOMAIN broadcasts THEN left \ {ws} ELSE left
  /\ JoinBroadcastEffect(ws, broadcastId, peerId)

CastLeaveBroadcast(ws, broadcastId, peerId) ==
  /\ CastFrame(ws, "leave-broadcast")
  /\ left' = IF OwnEntry(ws, broadcastId, peerId) THEN left \cup {ws} ELSE left
  /\ LeaveBroadcastEffect(ws, broadcastId, peerId)

CastSignal(ws, type, to, payload) ==
  /\ CastFrame(ws, type)
  /\ left' = left
  /\ CastSignalEffect(ws, type, to, payload)

CastClose(ws) ==
  /\ app = "broadcast"
  /\ received < MaxCastEvents
  /\ received' = received + 1
  /\ readyState[ws] \in {"OPEN", "CLOSING"}
  /\ readyState' = [readyState EXCEPT ![ws] = "CLOSED"]
  /\ frame' = [ws |-> ws, type |-> "close"]
  /\ CastCloseEffect(ws)
  /\ left' = left
  /\ UNCHANGED <<app, viewRef, chatVars, rooms, currentRoomId, snapshot, notices, joinedAt, clientVars, netVars, appVars, shareVars>>

CastCleanup(ws) ==
  /\ app = "broadcast"
  /\ cleanup[ws] = "armed"
  /\ cleanup' = [cleanup EXCEPT ![ws] = "fired"]
  /\ frame' = [ws |-> ws, type |-> "timeout"]
  /\ CleanupEffect(ws)
  /\ sent' = << >>
  /\ UNCHANGED <<app, viewRef, chatVars, rooms, currentRoomId, currentPeerId, readyState, snapshot, notices, joinedAt,
                 received, currentBroadcastId, currentRole, left, clientVars, netVars, appVars, shareVars>>

InitCast ==
  /\ app = "broadcast"
  /\ received = 0
  /\ RelayInit
  /\ ClientInit
  /\ CastInit
  /\ ShareInit
  /\ ChatInit

NextCast ==
  \/ \E ws \in Conns, peerId \in PeerIds, broadcastId \in BroadcastIds :
        CastCreateBroadcast(ws, peerId, broadcastId)
  \/ \E ws \in Conns, broadcastId \in BroadcastIds : CastStartBroadcast(ws, broadcastId)
  \/ \E ws \in Conns, broadcastId \in BroadcastIds : CastEndBroadcast(ws, broadcastId)
  \/ \E ws \in Conns, broadcastId \in BroadcastIds, peerId \in PeerIds :
        CastJoinBroadcast(ws, broadcastId, peerId)
  \/ \E ws \in Conns, broadcastId \in BroadcastIds, peerId \in PeerIds :
        CastLeaveBroadcast(ws, broadcastId, peerId)
  \/ \E ws \in Conns, type \in SignalTypes, to \in PeerIds : CastSignal(ws, type, to, "x")
  \/ \E ws \in Conns : CastClose(ws)
  \/ \E ws \in Conns : CastCleanup(ws)

SpecCast == InitCast /\ [][NextCast]_vars

CastChatMessage(ws, broadcastId, text) ==
  /\ CastFrame(ws, "chat-message")
  /\ left' = left
  /\ ChatEffect(ws, broadcastId, text)

\* The broadcast relay with chat, on event traces of at most MaxChatEvents
NextChat ==
  /\ received < MaxChatEvents
  /\ \/ NextCast
     \/ \E ws \in Conns, broadcastId \in BroadcastIds : CastChatMessage(ws, broadcastId, "hi")

SpecChat == InitCast /\ [][NextChat]_vars

\* The same relay on shorter event traces, with every cleanup timer that has
\* been started firing after some time.
NextGrace ==
  \/ received < MaxGraceEvents /\ NextCast
  \/ \E ws \in Conns : CastCleanup(ws)

SpecGrace == InitCast /\ [][NextGrace]_vars /\ WF_vars(\E ws \in Conns : CastCleanup(ws))

----------------------------------------------------------------------------
(* Either relay (the application chosen at the start says which server      *)
(* runs), receiving frames that are not well-formed envelopes among the     *)
(* well-formed ones.                                                        *)

Malformed(ws, data) ==
  /\ received' = received + 1
  /\ readyState[ws] = "OPEN"
  /\ frame' = [ws |-> ws, type |-> data]
  /\ MalformedEffect(ws, data)
  /\ UNCHANGED <<app, viewRef, chatVars, left, clientVars, netVars, appVars, shareVars>>

InitFrames ==
  /\ app \in Apps
  /\ received = 0
  /\ RelayInit
  /\ ClientInit
  /\ CastInit
  /\ ShareInit
  /\ ChatInit

NextFrames ==
  /\ received < MaxFrames
  /\ \/ app \in MeshApps /\ NextRelay
     \/ app = "broadcast" /\ NextCast
     \/ \E ws \in Conns, data \in MalformedFrames : Malformed(ws, data)

SpecFrames == InitFrames /\ [][NextFrames]_vars

----------------------------------------------------------------------------
(* One orchestrator alone: the hook of client Local is called in any order  *)
(* with any remote peer id, as the application does on signaling messages,  *)
(* and its suspended handlers resume in any order.                          *)

Local == "p1"
Remotes == {"p2", "p3"}

Busy(l) == Cardinality(tasks[l]) >= MaxTasks

RECURSIVE SumLen(_, _)
SumLen(f, S) == IF S = {} THEN 0 ELSE LET x == CHOOSE y \in S : TRUE IN Len(f[x]) + SumLen(f, S \ {x})

OrchCreatePeerConnection(r, initiator) ==
  /\ app \in MeshApps
  /\ r \in DOMAIN peerConnections[Local] \/ (pcSerial[Local] < MaxPc /\ ~Busy(Local))
  /\ CreatePeerConnectionBody(Local, r, initiator)
  /\ received < MaxCalls /\ received' = received + 1
  /\ UNCHANGED <<app, viewRef, chatVars, castVars, shareVars, relayVars, netVars>>

OrchCreateConnectionForViewer(v) ==
  /\ app = "broadcast"
  /\ v \in DOMAIN peerConnections[Local] \/ (pcSerial[Local] < MaxPc /\ ~Busy(Local))
  /\ CreateConnectionForViewerBody(Local, v)
  /\ received < MaxCalls /\ received' = received + 1
  /\ UNCHANGED <<app, viewRef, chatVars, castVars, shareVars, relayVars, netVars>>

OrchHandleOffer(r) ==
  /\ app \in MeshApps
  /\ r \in DOMAIN peerConnections[Local] \/ pcSerial[Local] < MaxPc
  /\ ~Busy(Local)
  /\ HandleOfferBody(Local, r, "offer")
  /\ received < MaxCalls /\ received' = received + 1
  /\ UNCHANGED <<app, viewRef, chatVars, castVars, shareVars, relayVars, netVars>>

OrchHandleAnswer(r) ==
  /\ ~Busy(Local)
  /\ HandleAnswerBody(Local, r, "answer")
  /\ received < MaxCalls /\ received' = received + 1
  /\ UNCHANGED <<app, viewRef, chatVars, castVars, shareVars, relayVars, netVars>>

OrchHandleIceCandidate(r) ==
  /\ SumLen(arrived[Local], Remotes) < MaxCand
  /\ HandleIceCandidateBody(Local, r, Candidates[Len(arrived[Local][r]) + 1])
  /\ received < MaxCalls /\ received' = received + 1
  /\ UNCHANGED <<app, viewRef, chatVars, castVars, shareVars, relayVars, netVars>>

OrchRemovePeer(r) ==
  /\ r \in DOMAIN peerConnections[Local]
  /\ IF app = "broadcast" THEN RemoveViewerBody(Local, r) ELSE RemovePeerBody(Local, r)
  /\ received < MaxCalls /\ received' = received + 1
  /\ UNCHANGED <<app, viewRef, chatVars, castVars, shareVars, relayVars, netVars>>

OrchCloseAllConnections ==
  /\ peerConnections[Local] # << >>
  /\ CloseAllConnectionsBody(Local)
  /\ received < MaxCalls /\ received' = received + 1
  /\ UNCHANGED <<app, viewRef, chatVars, castVars, shareVars, relayVars, netVars>>

OrchResume(t) ==
  /\ Resume(Local, t)
  /\ UNCHANGED <<app, viewRef, chatVars, castVars, shareVars, relayVars, received, netVars>>

InitOrch ==
  /\ app \in Apps
  /\ received = 0
  /\ RelayInit
  /\ ClientInit
  /\ CastInit
  /\ ShareInit
  /\ ChatInit

NextOrch ==
  \/ \E r \in Remotes, initiator \in BOOLEAN : OrchCreatePeerConnection(r, initiator)
  \/ \E v \in Remotes : OrchCreateConnectionForViewer(v)
  \/ \E r \in Remotes : OrchHandleOffer(r)
  \/ \E r \in Remotes : OrchHandleAnswer(r)
  \/ \E r \in Remotes : OrchHandleIceCandidate(r)
  \/ \E r \in Remotes : OrchRemovePeer(r)
  \/ OrchCloseAllConnections
  \/ \E t \in tasks[Local] : OrchResume(t)

SpecOrch == InitOrch /\ [][NextOrch]_vars

\* The same orchestrator with renegotiation: the application also starts and
\* stops screen sharing (expanded), and the viewer hook receives offers
\* (broadcast).
OrchAddScreenShareTrack ==
  /\ app = "expanded"
  /\ ~screenStream[Local]
  /\ Renegotiations(Local, "addScreenShareTrack") \cap tasks[Local] = {}
  /\ Cardinality(tasks[Local]) + Cardinality(DOMAIN peerConnections[Local]) <= MaxTasks
  /\ screenStream' = [screenStream EXCEPT ![Local] = TRUE]
  /\ AddScreenShareTrackBody(Local)
  /\ received < MaxCalls /\ received' = received + 1
  /\ UNCHANGED <<app, viewRef, chatVars, castVars, relayVars, netVars, isScreenSharing, remoteScreen, reportedSharing>>

OrchRemoveScreenShareTrack ==
  /\ app = "expanded"
  /\ screenStream[Local]
  /\ Renegotiations(Local, "removeScreenShareTrack") \cap tasks[Local] = {}
  /\ Cardinality(tasks[Local]) + Cardinality(DOMAIN peerConnections[Local]) <= MaxTasks
  /\ screenStream' = [screenStream EXCEPT ![Local] = FALSE]
  /\ RemoveScreenShareTrackBody(Local)
  /\ received < MaxCalls /\ received' = received + 1
  /\ UNCHANGED <<app, viewRef, chatVars, castVars, relayVars, netVars, isScreenSharing, remoteScreen, reportedSharing>>

OrchViewerHandleOffer ==
  /\ app = "broadcast"
  /\ BroadcasterKey \in DOMAIN peerConnections[Local] \/ pcSerial[Local] < MaxPc
  /\ ~Busy(Local)
  /\ ViewerHandleOfferBody(Local, "offer")
  /\ received < MaxCalls /\ received' = received + 1
  /\ UNCHANGED <<app, viewRef, chatVars, castVars, shareVars, relayVars, netVars>>

OrchCloseConnection ==
  /\ app = "broadcast"
  /\ BroadcasterKey \in DOMAIN peerConnections[Local]
  /\ CloseConnectionBody(Local)
  /\ received < MaxCalls /\ received' = received + 1
  /\ UNCHANGED <<app, viewRef, chatVars, castVars, shareVars, relayVars, netVars>>

NextTracks ==
  \/ NextOrch
  \/ OrchAddScreenShareTrack
  \/ OrchRemoveScreenShareTrack
  \/ OrchViewerHandleOffer
  \/ OrchCloseConnection

SpecTracks == InitOrch /\ [][NextTracks]_vars

\* The same orchestrator with connections that can fail: the browser reports
\* connectionState 'failed' on a connection that has both descriptions and
\* has not failed, or has restarted ICE since it failed.
OrchConnectionFailed(r) ==
  /\ r \in DOMAIN peerConnections[Local]
  /\ peerConnections[Local][r].localDescription
  /\ peerConnections[Local][r].remoteDescription
  /\ peerConnections[Local][r].connectionState # "failed"
  /\ ConnectionStateChangeBody(Local, r, "failed")
  /\ received < MaxCalls /\ received' = received + 1
  /\ UNCHANGED <<pendingCandidates, remotePeers, viewerCount, tasks, pcSerial, openPcs,
                 arrived, added>>
  /\ UNCHANGED <<app, viewRef, chatVars, castVars, shareVars, relayVars, netVars>>

NextIce ==
  \/ NextOrch
  \/ \E r \in Remotes : OrchConnectionFailed(r)

SpecIce == InitOrch /\ [][NextIce]_vars

----------------------------------------------------------------------------
(* The mesh applications: clients that run the application code, the relay, *)
(* and an ordered transport between each client and the relay.  A client    *)
(* joins the room over a new connection, leaves, may join again with the    *)
(* same peerId, or loses its connection.                                    *)

Room == "r1"
ConnOrder == <<"w1", "w2", "w3">>

\* the connection a new WebSocket(url) gets
FreshConn ==
  ConnOrder[CHOOSE i \in 1..Len(ConnOrder) :
              /\ clientEnd[ConnOrder[i]] = "NEW"
              /\ \A j \in 1..(i - 1) : clientEnd[ConnOrder[j]] # "NEW"]

\* the messages of out addressed to connection w, in order
Deliveries(out, w) ==
  LET mine == SelectSeq(out, LAMBDA d : d.to = w)
  IN [i \in 1..Len(mine) |-> mine[i].msg]

\* ws.send of the relay: what was sent in this step travels to the clients;
\* data for a connection whose client end is gone is discarded
Transmit ==
  toClient' = [w \in Conns |-> IF clientEnd[w] = "OPEN"
                                THEN toClient[w] \o Deliveries(sent', w)
                                ELSE toClient[w]]

\* ws.on('message') of the relay for the next message of connection w
MeshRelayMessage(w) ==
  /\ toRelay[w] # << >>
  /\ readyState[w] = "OPEN"
  /\ LET m == Head(toRelay[w])
     IN IF m.type = "join"
        THEN JoinEffect(w, m.roomId, m.peerId)
        ELSE ForwardEffect(w, m.type, m.from, m.to, m.payload)
  /\ toRelay' = [toRelay EXCEPT ![w] = Tail(@)]
  /\ Transmit
  /\ UNCHANGED <<app, viewRef, chatVars, castVars, shareVars, readyState, received, clientVars, sock, clientEnd, isJoined>>

\* ws.on('close') of the relay, after everything the client sent
MeshRelayClose(w) ==
  /\ clientEnd[w] = "CLOSED"
  /\ toRelay[w] = << >>
  /\ readyState[w] = "OPEN"
  /\ readyState' = [readyState EXCEPT ![w] = "CLOSED"]
  /\ CloseEffect(w)
  /\ Transmit
  /\ UNCHANGED <<app, viewRef, chatVars, castVars, shareVars, received, clientVars, sock, clientEnd, isJoined, toRelay>>

\* handleJoin: signaling.connect(), then send join with the client's peerId
MeshJoin(l) ==
  /\ ~isJoined[l]
  /\ \E w \in Conns : clientEnd[w] = "NEW"
  /\ LET w == FreshConn
     IN /\ sock' = [sock EXCEPT ![l] = w]
        /\ clientEnd' = [clientEnd EXCEPT ![w] = "OPEN"]
        /\ toRelay' = [toRelay EXCEPT ![w] =
                         <<[Signal("join", Nil, Nil, Nil) EXCEPT !.roomId = Room, !.peerId = l]>>]
  /\ isJoined' = [isJoined EXCEPT ![l] = TRUE]
  /\ UNCHANGED <<app, viewRef, chatVars, castVars, shareVars, relayVars, received, clientVars, toClient>>

\* signaling.disconnect() or a lost connection: the socket of client l is gone
Disconnected(l) ==
  /\ sock' = [sock EXCEPT ![l] = Nil]
  /\ IF sock[l] = Nil
     THEN UNCHANGED <<clientEnd, toClient>>
     ELSE /\ clientEnd' = [clientEnd EXCEPT ![sock[l]] = "CLOSED"]
          /\ toClient' = [toClient EXCEPT ![sock[l]] = << >>]

\* connections that have ended at the client
Ended == Cardinality({w \in Conns : clientEnd[w] = "CLOSED"})

\* handleLeave: closeAllConnections(), signaling.disconnect()
MeshLeave(l) ==
  /\ isJoined[l]
  /\ Ended < MaxLeaves
  /\ CloseAllConnectionsBody(l)
  /\ Disconnected(l)
  /\ isJoined' = [isJoined EXCEPT ![l] = FALSE]
  /\ UNCHANGED <<app, viewRef, chatVars, castVars, shareVars, relayVars, received, toRelay>>

\* the connection of client l is lost without a leave
MeshDrop(l) ==
  /\ sock[l] # Nil
  /\ Ended < MaxLeaves
  /\ Disconnected(l)
  /\ UNCHANGED <<app, viewRef, chatVars, castVars, shareVars, relayVars, received, clientVars, isJoined, toRelay>>

\* room-peers: createPeerConnection(peer, true) for each listed peer
RECURSIVE ConnectToAll(_, _)
ConnectToAll(st, peers) ==
  IF peers = << >> THEN st
  ELSE ConnectToAll(createPeerConnection(st, Head(peers), TRUE), Tail(peers))

\* handleSignalingMessage for the next message that reached client l
MeshMessage(l) ==
  /\ sock[l] # Nil
  /\ toClient[sock[l]] # << >>
  /\ LET m == Head(toClient[sock[l]])
     IN CASE m.type = "room-peers" ->
               /\ Store(l, ConnectToAll(Cur(l), m.peers))
               /\ UNCHANGED <<pendingCandidates, viewerCount, arrived, added, toRelay>>
          [] m.type = "peer-left" -> RemovePeerBody(l, m.peerId)
          [] m.type = "offer" -> HandleOfferBody(l, m.from, m.payload)
          [] m.type = "answer" -> HandleAnswerBody(l, m.from, m.payload)
          [] m.type = "ice-candidate" -> HandleIceCandidateBody(l, m.from, m.payload)
          [] OTHER -> UNCHANGED <<clientVars, toRelay>>
  /\ toClient' = [toClient EXCEPT ![sock[l]] = Tail(@)]
  /\ UNCHANGED <<app, viewRef, chatVars, castVars, shareVars, relayVars, received, sock, clientEnd, isJoined>>

\* sessions that have produced a candidate
Gathering ==
  {<<c, x>> \in Clients \X Clients : x \in DOMAIN peerConnections[c] /\ peerConnections[c][x].gathered > 0}

\* pc.onicecandidate of the session of client l with r
MeshIceCandidate(l, r) ==
  /\ r \in DOMAIN peerConnections[l]
  /\ LET pc == peerConnections[l][r]
     IN /\ pc.localDescription
        /\ pc.gathered < MaxGather
        /\ Gathering = {}
        /\ Ended = 0
        /\ peerConnections' = SetPc(l, r, [pc EXCEPT !.gathered = @ + 1])
        /\ sendSignaling(l, Signal("ice-candidate", l, r, Candidates[pc.gathered + 1]))
  /\ UNCHANGED <<app, viewRef, chatVars, castVars, shareVars, relayVars, received, pendingCandidates, remotePeers, viewerCount, tasks,
                 pcSerial, openPcs, arrived, added, sock, clientEnd, isJoined, toClient>>

MeshResume(l, t) ==
  /\ Resume(l, t)
  /\ UNCHANGED <<app, viewRef, chatVars, castVars, shareVars, relayVars, received, sock, clientEnd, isJoined, toClient>>

InitMesh ==
  /\ app \in MeshApps
  /\ received = 0
  /\ RelayInit
  /\ ClientInit
  /\ CastInit
  /\ ShareInit
  /\ ChatInit

NextMesh ==
  \/ \E w \in Conns : MeshRelayMessage(w)
  \/ \E w \in Conns : MeshRelayClose(w)
  \/ \E l \in MeshClients : MeshJoin(l)
  \/ \E l \in MeshClients : MeshLeave(l)
  \/ \E l \in MeshClients : MeshDrop(l)
  \/ \E l \in MeshClients : MeshMessage(l)
  \/ \E l \in MeshClients, r \in MeshClients : MeshIceCandidate(l, r)
  \/ \E l \in MeshClients : \E t \in tasks[l] : MeshResume(l, t)

SpecMesh == InitMesh /\ [][NextMesh]_vars

----------------------------------------------------------------------------
(* A call in which the clients join one after another and every connection *)
(* stays up; the relay and the clients keep handling what reaches them.     *)

JoinPending == \E w \in Conns : \E i \in 1..Len(toRelay[w]) : toRelay[w][i].type = "join"

LiveJoin(l) ==
  /\ ~JoinPending
  /\ MeshJoin(l)

NextLive ==
  \/ \E l \in Clients : LiveJoin(l)
  \/ \E w \in Conns : MeshRelayMessage(w)
  \/ \E l \in Clients : MeshMessage(l)
  \/ \E l \in Clients : \E t \in tasks[l] : MeshResume(l, t)

SpecLive == InitMesh /\ [][NextLive]_vars /\ WF_vars(NextLive)

----------------------------------------------------------------------------
(* Screen sharing in the expanded call: the clients join one after another, *)
(* every connection stays up, and a client in the call starts and stops     *)
(* sharing its screen.                                                      *)

\* case 'join' of the expanded server: existingPeers carries each member's
\* isScreenSharing, and the joiner's entry is stored with isScreenSharing false
ShareJoinEffect(ws, roomId, peerId) ==
  LET existingPeers == IF roomId \in DOMAIN rooms THEN SeqRange(MapKeys(rooms[roomId])) ELSE {}
  IN /\ JoinEffect(ws, roomId, peerId)
     /\ reportedSharing' = [reportedSharing EXCEPT ![ws] =
                              {p \in existingPeers : <<roomId, p>> \in isScreenSharing}]
     /\ isScreenSharing' = isScreenSharing \ {<<roomId, peerId>>}

\* case 'screen-share-started' (sharing TRUE) / 'screen-share-stopped' (FALSE)
ScreenShareEffect(ws, type, sharing) ==
  LET rid == currentRoomId[ws]
      pid == currentPeerId[ws]
  IN /\ UNCHANGED <<rooms, currentRoomId, currentPeerId, joinedAt, reportedSharing>>
     /\ IF rid # Nil /\ pid # Nil
        THEN /\ isScreenSharing' =
                  IF rid \in DOMAIN rooms /\ MapHas(rooms[rid], pid)
                  THEN IF sharing THEN isScreenSharing \cup {<<rid, pid>>}
                                  ELSE isScreenSharing \ {<<rid, pid>>}
                  ELSE isScreenSharing
             /\ RecordSends(broadcast(rooms, readyState, rid,
                                      Envelope(type, pid, << >>, Nil, Nil, Nil), pid))
        ELSE /\ isScreenSharing' = isScreenSharing
             /\ RecordSends(<< >>)

\* ws.on('message') of the expanded relay for the next message of connection w
ShareRelayMessage(w) ==
  /\ toRelay[w] # << >>
  /\ readyState[w] = "OPEN"
  /\ LET m == Head(toRelay[w])
     IN CASE m.type = "join" -> ShareJoinEffect(w, m.roomId, m.peerId)
          [] m.type = "screen-share-started" -> ScreenShareEffect(w, m.type, TRUE)
          [] m.type = "screen-share-stopped" -> ScreenShareEffect(w, m.type, FALSE)
          [] OTHER -> /\ ForwardEffect(w, m.type, m.from, m.to, m.payload)
                      /\ UNCHANGED <<isScreenSharing, reportedSharing>>
  /\ toRelay' = [toRelay EXCEPT ![w] = Tail(@)]
  /\ Transmit
  /\ UNCHANGED <<app, viewRef, chatVars, castVars, screenStream, remoteScreen, readyState, received, clientVars,
                 sock, clientEnd, isJoined>>

\* handleSignalingMessage of CallScreen for the next message that reached client l
ShareMessage(l) ==
  /\ sock[l] # Nil
  /\ toClient[sock[l]] # << >>
  /\ LET m == Head(toClient[sock[l]])
     IN CASE m.type = "room-peers" ->
               /\ Store(l, ConnectToAll(Cur(l), m.peers))
               /\ UNCHANGED <<pendingCandidates, viewerCount, arrived, added, toRelay, remoteScreen>>
          [] m.type = "peer-left" -> RemovePeerBody(l, m.peerId) /\ UNCHANGED remoteScreen
          [] m.type = "offer" -> HandleOfferBody(l, m.from, m.payload) /\ UNCHANGED remoteScreen
          [] m.type = "answer" -> HandleAnswerBody(l, m.from, m.payload) /\ UNCHANGED remoteScreen
          [] m.type = "screen-share-stopped" ->
               \* clearPeerScreenStream(message.peerId)
               /\ remoteScreen' = [remoteScreen EXCEPT ![l] = @ \ {m.peerId}]
               /\ UNCHANGED <<clientVars, toRelay>>
          [] OTHER -> UNCHANGED <<clientVars, toRelay, remoteScreen>>
  /\ toClient' = [toClient EXCEPT ![sock[l]] = Tail(@)]
  /\ UNCHANGED <<app, viewRef, chatVars, castVars, screenStream, isScreenSharing, reportedSharing, relayVars, received,
                 sock, clientEnd, isJoined>>

\* pc.ontrack fired for a stream other than the remote peer's first stream:
\* the remote description that handler t has applied is an offer that
\* describes the screen-share track
ScreenTrackArrives(l, t) ==
  /\ t.op = "handleOffer"
  /\ t.step = "setRemoteDescription"
  /\ t.sdp = "offer+screen"
  /\ Alive(l, t)
  /\ t \notin tasks'[l]
  /\ peerConnections'[l][t.remote].signalingState = "have-remote-offer"

ShareResume(l, t) ==
  /\ Resume(l, t)
  /\ remoteScreen' = [remoteScreen EXCEPT ![l] =
                        IF ScreenTrackArrives(l, t) THEN @ \cup {t.remote} ELSE @]
  /\ UNCHANGED <<app, viewRef, chatVars, castVars, screenStream, isScreenSharing, reportedSharing, relayVars, received,
                 sock, clientEnd, isJoined, toClient>>

\* handleToggleScreenShare, not sharing: after startScreenShare() has resolved
ShareStart(l) ==
  /\ isJoined[l]
  /\ ~screenStream[l]
  /\ received < MaxToggles /\ received' = received + 1
  /\ Renegotiations(l, "addScreenShareTrack") \cap tasks[l] = {}
  /\ screenStream' = [screenStream EXCEPT ![l] = TRUE]
  /\ AddScreenShareTrackBody(l)
  /\ sendSignaling(l, Signal("screen-share-started", Nil, Nil, Nil))
  /\ UNCHANGED <<app, viewRef, chatVars, castVars, isScreenSharing, remoteScreen, reportedSharing, relayVars,
                 sock, clientEnd, isJoined, toClient>>

\* handleToggleScreenShare, sharing: stopScreenShare(), removeScreenShareTrack(),
\* send screen-share-stopped
ShareStop(l) ==
  /\ isJoined[l]
  /\ screenStream[l]
  /\ received < MaxToggles /\ received' = received + 1
  /\ Renegotiations(l, "removeScreenShareTrack") \cap tasks[l] = {}
  /\ screenStream' = [screenStream EXCEPT ![l] = FALSE]
  /\ RemoveScreenShareTrackBody(l)
  /\ sendSignaling(l, Signal("screen-share-stopped", Nil, Nil, Nil))
  /\ UNCHANGED <<app, viewRef, chatVars, castVars, isScreenSharing, remoteScreen, reportedSharing, relayVars,
                 sock, clientEnd, isJoined, toClient>>

\* the onended handler of the screen track (the browser's own stop control):
\* stopScreenShare()
ShareEnded(l) ==
  /\ screenStream[l]
  /\ received < MaxToggles /\ received' = received + 1
  /\ screenStream' = [screenStream EXCEPT ![l] = FALSE]
  /\ UNCHANGED <<app, viewRef, chatVars, castVars, isScreenSharing, remoteScreen, reportedSharing, relayVars,
                 clientVars, netVars>>

ShareSystem ==
  \/ \E w \in Conns : ShareRelayMessage(w)
  \/ \E l \in ShareClients : ShareMessage(l)
  \/ \E l \in ShareClients : \E t \in tasks[l] : ShareResume(l, t)

InitShare ==
  /\ app = "expanded"
  /\ received = 0
  /\ RelayInit
  /\ ClientInit
  /\ CastInit
  /\ ShareInit
  /\ ChatInit

NextShare ==
  \/ \E l \in ShareClients : LiveJoin(l)
  \/ \E l \in ShareClients : ShareStart(l)
  \/ \E l \in ShareClients : ShareStop(l)
  \/ \E l \in ShareClients : ShareEnded(l)
  \/ ShareSystem

SpecShare == InitShare /\ [][NextShare]_vars /\ WF_vars(ShareSystem)

----------------------------------------------------------------------------
(* Chat in the expanded call: the clients join one after another, every     *)
(* connection stays up, the data channel of each session opens once the     *)
(* session is negotiated, and clients in the call send chat messages.       *)

\* the session of client l with r has both descriptions
Negotiated(l, r) ==
  /\ r \in DOMAIN peerConnections[l]
  /\ peerConnections[l][r].localDescription
  /\ peerConnections[l][r].remoteDescription

\* the data channels that dataChannelsRef of some client holds
HeldChannels ==
  {peerConnections[l][r].channel : <<l, r>> \in {x \in Clients \X Clients : x[2] \in DOMAIN peerConnections[x[1]]}}
    \ {NoChannel}

\* channel.readyState === 'open' at the end of channel c that client l holds
ReadyStateOpen(l, c) ==
  /\ c # NoChannel
  /\ c \in opened
  /\ c.by = l \/ c \in announced

\* the transport of channel c is established between the two negotiated
\* connections: the channel opens at the side that created it
DataChannelOpen(c) ==
  /\ c \notin opened
  /\ Negotiated(c.by, c.to)
  /\ Negotiated(c.to, c.by)
  /\ peerConnections[c.by][c.to].id = c.id
  /\ opened' = opened \cup {c}
  /\ UNCHANGED <<app, viewRef, relayVars, received, clientVars, netVars, castVars, shareVars,
                 announced, wire, messages, posted>>

\* pc.ondatachannel that does not register the announced channel
DataChannelAnnounced_unregistered(c) ==
  /\ c \in opened
  /\ c \notin announced
  /\ c.by \in DOMAIN peerConnections[c.to]
  /\ announced' = announced \cup {c}
  /\ UNCHANGED <<app, viewRef, relayVars, received, netVars, castVars, shareVars, clientVars,
                 opened, wire, messages, posted>>

\* pc.ondatachannel at the remote peer: setupDataChannel(event.channel, remotePeerId)
DataChannelAnnounced(c) ==
  /\ c \in opened
  /\ c \notin announced
  /\ c.by \in DOMAIN peerConnections[c.to]
  /\ announced' = announced \cup {c}
  /\ peerConnections' = [peerConnections EXCEPT ![c.to][c.by].channel = c]
  /\ UNCHANGED <<app, viewRef, relayVars, received, netVars, castVars, shareVars,
                 pendingCandidates, remotePeers, viewerCount, tasks, pcSerial, openPcs, arrived, added,
                 opened, wire, messages, posted>>

\* message number n of client l
ChatMessage(l, n) == [from |-> l, n |-> n]

\* sendChatMessage(text)
SendChatMessage(l) ==
  /\ isJoined[l]
  /\ received < MaxChat
  /\ received' = received + 1
  /\ LET message == ChatMessage(l, received + 1)
         \* dataChannelsRef.current.forEach: the channels with readyState 'open'
         open == {r \in DOMAIN peerConnections[l] : ReadyStateOpen(l, peerConnections[l][r].channel)}
     IN /\ wire' = [x \in Clients \X Clients |->
                      IF x[1] = l /\ x[2] \in open
                      THEN Append(wire[x], [channel |-> peerConnections[l][x[2]].channel, message |-> message])
                      ELSE wire[x]]
        /\ posted' = posted \cup {<<message, r>> : r \in open}
        /\ messages' = [messages EXCEPT ![l] = Append(@, message)]
  /\ UNCHANGED <<app, viewRef, relayVars, clientVars, netVars, castVars, shareVars, opened, announced>>

\* channel.onmessage at client r for the next message from l: onChatMessage
ChatMessageArrives(l, r) ==
  /\ wire[<<l, r>>] # << >>
  /\ ReadyStateOpen(r, Head(wire[<<l, r>>]).channel)
  /\ wire' = [wire EXCEPT ![<<l, r>>] = Tail(@)]
  /\ messages' = [messages EXCEPT ![r] = Append(@, Head(wire[<<l, r>>]).message)]
  /\ UNCHANGED <<app, viewRef, relayVars, received, clientVars, netVars, castVars, shareVars,
                 opened, announced, posted>>

TalkSystem ==
  \/ \E w \in Conns : ShareRelayMessage(w)
  \/ \E l \in Clients : ShareMessage(l)
  \/ \E l \in Clients : \E t \in tasks[l] : ShareResume(l, t)
  \/ \E c \in HeldChannels : DataChannelOpen(c)
  \/ \E c \in opened : DataChannelAnnounced(c)
  \/ \E l \in Clients, r \in Clients : ChatMessageArrives(l, r)

\* a client joins once the signaling of the earlier joins has been handled
TalkJoin(l) ==
  /\ \A w \in Conns : toRelay[w] = << >> /\ toClient[w] = << >>
  /\ \A c \in Clients : tasks[c] = {}
  /\ MeshJoin(l)

NextTalk ==
  \/ \E l \in Clients : TalkJoin(l)
  \/ \E l \in Clients : SendChatMessage(l)
  \/ TalkSystem

SpecTalk == InitShare /\ [][NextTalk]_vars

----------------------------------------------------------------------------
(* The broadcast application: one client starts a broadcast and goes live,  *)
(* the others join it as viewers; the broadcast relay and the transport     *)
(* between each client and the relay.  No client leaves.                    *)

Broadcaster == "p1"
StarViewers == {"p2", "p3"}

\* a message of the App to the relay
Request(type, broadcastId, peerId) == [type |-> type, broadcastId |-> broadcastId, peerId |-> peerId]

\* useSignaling.connect(): nothing if the socket is open, else a new WebSocket
Connect(l) ==
  IF sock[l] # Nil /\ clientEnd[sock[l]] = "OPEN"
  THEN UNCHANGED <<sock, clientEnd>>
  ELSE /\ sock' = [sock EXCEPT ![l] = FreshConn]
       /\ clientEnd' = [clientEnd EXCEPT ![FreshConn] = "CONNECTING"]

\* handleStartBroadcast, after the media has started
StarStartBroadcast(l) ==
  /\ view[l] = "home"
  /\ \E w \in Conns : clientEnd[w] = "NEW"
  /\ Connect(l)
  /\ sendTimer' = [sendTimer EXCEPT ![l] = Append(@, Request("create-broadcast", Nil, l))]
  /\ view' = [view EXCEPT ![l] = "broadcaster-lobby"]
  /\ UNCHANGED <<app, viewRef, chatVars, relayVars, received, clientVars, isJoined, toRelay, toClient,
                 castState, frame, appBroadcastId, joinedLive, isLive, shareVars>>

\* handleJoinBroadcast(id)
StarJoinBroadcast(l, id) ==
  /\ view[l] = "home"
  /\ id \in DOMAIN broadcasts
  /\ \E w \in Conns : clientEnd[w] = "NEW"
  /\ appBroadcastId' = [appBroadcastId EXCEPT ![l] = id]
  /\ Connect(l)
  /\ sendTimer' = [sendTimer EXCEPT ![l] = Append(@, Request("join-broadcast", id, l))]
  /\ view' = [view EXCEPT ![l] = "viewer-lobby"]
  /\ UNCHANGED <<app, viewRef, chatVars, relayVars, received, clientVars, isJoined, toRelay, toClient,
                 castState, frame, joinedLive, isLive, shareVars>>

\* ws.onopen
StarSocketOpen(w) ==
  /\ clientEnd[w] = "CONNECTING"
  /\ clientEnd' = [clientEnd EXCEPT ![w] = "OPEN"]
  /\ UNCHANGED <<app, viewRef, chatVars, relayVars, received, clientVars, sock, isJoined, toRelay, toClient, castVars, shareVars>>

\* the callback of setTimeout(() => signaling.send(...), 100)
StarTimer(l) ==
  /\ sendTimer[l] # << >>
  /\ sendSignaling(l, Head(sendTimer[l]))
  /\ sendTimer' = [sendTimer EXCEPT ![l] = Tail(@)]
  /\ UNCHANGED <<app, viewRef, chatVars, relayVars, received, clientVars, sock, clientEnd, isJoined, toClient,
                 castState, frame, view, appBroadcastId, joinedLive, isLive, shareVars>>

\* handleGoLive
StarGoLive(l) ==
  /\ view[l] = "broadcaster-lobby"
  /\ appBroadcastId[l] # Nil
  /\ sendSignaling(l, Request("start-broadcast", appBroadcastId[l], Nil))
  /\ isLive' = [isLive EXCEPT ![l] = TRUE]
  /\ view' = [view EXCEPT ![l] = "broadcasting"]
  /\ UNCHANGED <<app, viewRef, chatVars, relayVars, received, clientVars, sock, clientEnd, isJoined, toClient,
                 castState, frame, appBroadcastId, sendTimer, joinedLive, shareVars>>

\* handleJoinAsViewer
StarJoinAsViewer(l) ==
  /\ view[l] = "viewer-lobby"
  /\ view' = [view EXCEPT ![l] = "viewing"]
  /\ UNCHANGED <<app, viewRef, chatVars, relayVars, received, clientVars, netVars,
                 castState, frame, appBroadcastId, sendTimer, joinedLive, isLive, shareVars>>

\* ws.on('message') of the broadcast relay for the next message of connection w
StarRelayMessage(w) ==
  /\ toRelay[w] # << >>
  /\ readyState[w] = "OPEN"
  /\ LET m == Head(toRelay[w])
     IN /\ CASE m.type = "create-broadcast" ->
                  \E id \in BroadcastIds : CreateBroadcastEffect(w, m.peerId, id)
             [] m.type = "start-broadcast" -> SetLiveEffect(w, m.broadcastId, TRUE)
             [] m.type = "join-broadcast" -> JoinBroadcastEffect(w, m.broadcastId, m.peerId)
             [] m.type = "end-broadcast" -> SetLiveEffect(w, m.broadcastId, FALSE)
             [] m.type = "leave-broadcast" -> LeaveBroadcastEffect(w, m.broadcastId, m.peerId)
             [] OTHER -> CastSignalEffect(w, m.type, m.to, m.payload)
        /\ frame' = [ws |-> w, type |-> m.type]
        /\ left' = CASE m.type \in {"create-broadcast", "join-broadcast"} -> left \ {w}
                      [] m.type = "leave-broadcast" /\ OwnEntry(w, m.broadcastId, m.peerId) -> left \cup {w}
                      [] OTHER -> left
        /\ joinedLive' = IF /\ m.type = "join-broadcast"
                            /\ m.broadcastId \in DOMAIN broadcasts
                            /\ view[Broadcaster] = "broadcasting"
                         THEN joinedLive \cup {m.peerId}
                         ELSE joinedLive
  /\ toRelay' = [toRelay EXCEPT ![w] = Tail(@)]
  /\ Transmit
  /\ UNCHANGED <<app, viewRef, chatVars, rooms, currentRoomId, readyState, snapshot, notices, joinedAt, cleanup,
                 received, clientVars, sock, clientEnd, isJoined, view, appBroadcastId, sendTimer,
                 isLive, shareVars>>

\* viewRef.current as the handlers of client l read it
ViewRefCurrent(l) == IF viewRef[l] = Nil THEN view[l] ELSE viewRef[l]

\* handleSignalingMessage of the broadcast App for the next message that
\* reached client l
HandleSignalingMessage(l) ==
  /\ sock[l] # Nil
  /\ toClient[sock[l]] # << >>
  /\ LET m == Head(toClient[sock[l]])
     IN CASE m.type = "broadcast-created" ->
               /\ appBroadcastId' = [appBroadcastId EXCEPT ![l] = m.broadcastId]
               /\ UNCHANGED <<clientVars, toRelay, view, isLive>>
          [] m.type = "broadcast-info" ->
               /\ isLive' = [isLive EXCEPT ![l] = m.isLive]
               /\ UNCHANGED <<clientVars, toRelay, view, appBroadcastId>>
          [] m.type = "broadcast-started" ->
               /\ isLive' = [isLive EXCEPT ![l] = TRUE]
               /\ UNCHANGED <<clientVars, toRelay, view, appBroadcastId>>
          [] m.type = "broadcast-ended" ->
               /\ isLive' = [isLive EXCEPT ![l] = FALSE]
               /\ view' = [view EXCEPT ![l] = IF ViewRefCurrent(l) = "viewing" THEN "viewer-lobby" ELSE @]
               /\ UNCHANGED <<clientVars, toRelay, appBroadcastId>>
          [] m.type = "viewer-joined" ->
               /\ IF ViewRefCurrent(l) = "broadcasting"
                  THEN CreateConnectionForViewerBody(l, m.peerId)
                  ELSE UNCHANGED <<clientVars, toRelay>>
               /\ UNCHANGED <<view, appBroadcastId, isLive>>
          [] m.type = "viewer-left" ->
               /\ RemoveViewerBody(l, m.peerId)
               /\ UNCHANGED <<view, appBroadcastId, isLive>>
          [] m.type = "offer" ->
               /\ IF ViewRefCurrent(l) \in {"viewing", "viewer-lobby"}
                  THEN /\ view' = [view EXCEPT ![l] = IF ViewRefCurrent(l) = "viewer-lobby" THEN "viewing" ELSE @]
                       /\ ViewerHandleOfferBody(l, m.payload)
                  ELSE UNCHANGED <<clientVars, toRelay, view>>
               /\ UNCHANGED <<appBroadcastId, isLive>>
          [] m.type = "answer" ->
               /\ IF ViewRefCurrent(l) = "broadcasting"
                  THEN HandleAnswerBody(l, m.from, m.payload)
                  ELSE UNCHANGED <<clientVars, toRelay>>
               /\ UNCHANGED <<view, appBroadcastId, isLive>>
          [] m.type = "ice-candidate" ->
               /\ CASE ViewRefCurrent(l) = "broadcasting" -> HandleIceCandidateBody(l, m.from, m.payload)
                    [] ViewRefCurrent(l) = "viewing" -> HandleIceCandidateBody(l, BroadcasterKey, m.payload)
                    [] OTHER -> UNCHANGED <<clientVars, toRelay>>
               /\ UNCHANGED <<view, appBroadcastId, isLive>>
          [] OTHER -> UNCHANGED <<clientVars, toRelay, view, appBroadcastId, isLive>>
  /\ toClient' = [toClient EXCEPT ![sock[l]] = Tail(@)]
  /\ UNCHANGED <<app, chatVars, relayVars, received, sock, clientEnd, isJoined,
                 castState, frame, sendTimer, joinedLive, shareVars>>

\* a message is handled once the effect of the last render has run
StarMessage(l) ==
  /\ HandleSignalingMessage(l)
  /\ UNCHANGED viewRef

StarResume(l, t) ==
  /\ Resume(l, t)
  /\ UNCHANGED <<app, viewRef, chatVars, castVars, shareVars, relayVars, received, sock, clientEnd, isJoined, toClient>>

\* what runs without the user: sockets open, timers fire, messages are handled
StarSystem ==
  \/ \E w \in Conns : StarSocketOpen(w)
  \/ \E l \in Clients : StarTimer(l)
  \/ \E w \in Conns : StarRelayMessage(w)
  \/ \E l \in Clients : StarMessage(l)
  \/ \E l \in Clients : \E t \in tasks[l] : StarResume(l, t)

NextStar ==
  \/ StarStartBroadcast(Broadcaster)
  \/ \E l \in StarViewers, id \in BroadcastIds : StarJoinBroadcast(l, id)
  \/ StarGoLive(Broadcaster)
  \/ \E l \in StarViewers : StarJoinAsViewer(l)
  \/ StarSystem

SpecStar == InitCast /\ [][NextStar]_vars /\ WF_vars(StarSystem)

----------------------------------------------------------------------------
(* A broadcast that also ends: the broadcaster ends the broadcast, viewers  *)
(* leave, either side goes back from its lobby, the relay handles the       *)
(* connections that closed and its cleanup timers fire.                     *)

\* setBroadcastId(null); setIsLive(false); setView('home')
GoHome(l) ==
  /\ appBroadcastId' = [appBroadcastId EXCEPT ![l] = Nil]
  /\ isLive' = [isLive EXCEPT ![l] = FALSE]
  /\ view' = [view EXCEPT ![l] = "home"]

\* handleEndBroadcast
AirEndBroadcast(l) ==
  /\ view[l] = "broadcasting"
  /\ Ended < MaxExits
  /\ IF appBroadcastId[l] # Nil
     THEN sendSignaling(l, Request("end-broadcast", appBroadcastId[l], Nil))
     ELSE UNCHANGED toRelay
  /\ CloseAllConnectionsBody(l)
  /\ Disconnected(l)
  /\ GoHome(l)
  /\ UNCHANGED <<app, viewRef, chatVars, relayVars, received, isJoined, castState, frame, sendTimer, joinedLive, shareVars>>

\* handleLeaveBroadcast
AirLeaveBroadcast(l) ==
  /\ view[l] = "viewing"
  /\ Ended < MaxExits
  /\ IF appBroadcastId[l] # Nil
     THEN sendSignaling(l, Request("leave-broadcast", appBroadcastId[l], l))
     ELSE UNCHANGED toRelay
  /\ CloseConnectionBody(l)
  /\ Disconnected(l)
  /\ GoHome(l)
  /\ UNCHANGED <<app, viewRef, chatVars, relayVars, received, isJoined, castState, frame, sendTimer, joinedLive, shareVars>>

\* handleBack: signaling.disconnect(), closeAllConnections(), closeConnection()
AirBack(l) ==
  /\ view[l] \in {"broadcaster-lobby", "viewer-lobby"}
  /\ Ended < MaxExits
  /\ CloseBothBody(l)
  /\ Disconnected(l)
  /\ GoHome(l)
  /\ UNCHANGED <<app, viewRef, chatVars, relayVars, received, isJoined, toRelay, castState, frame, sendTimer,
                 joinedLive, shareVars>>

\* ws.on('close') of the broadcast relay, after everything the client sent
AirRelayClose(w) ==
  /\ clientEnd[w] = "CLOSED"
  /\ toRelay[w] = << >>
  /\ readyState[w] = "OPEN"
  /\ readyState' = [readyState EXCEPT ![w] = "CLOSED"]
  /\ CastCloseEffect(w)
  /\ frame' = [ws |-> w, type |-> "close"]
  /\ left' = left
  /\ Transmit
  /\ UNCHANGED <<app, viewRef, chatVars, rooms, currentRoomId, snapshot, notices, joinedAt, received, clientVars,
                 sock, clientEnd, isJoined, toRelay, appVars, shareVars>>

AirSystem ==
  \/ StarSystem
  \/ \E w \in Conns : AirRelayClose(w)
  \/ \E w \in Conns : CastCleanup(w)

NextAir ==
  \/ StarStartBroadcast(Broadcaster)
  \/ \E l \in StarViewers, id \in BroadcastIds : StarJoinBroadcast(l, id)
  \/ StarGoLive(Broadcaster)
  \/ \E l \in StarViewers : StarJoinAsViewer(l)
  \/ AirEndBroadcast(Broadcaster)
  \/ \E l \in StarViewers : AirLeaveBroadcast(l)
  \/ \E l \in Clients : AirBack(l)
  \/ AirSystem

SpecAir == InitCast /\ [][NextAir]_vars

----------------------------------------------------------------------------
(* The broadcast application with the sessions' ICE candidates, and with    *)
(* the render that a message handler asks for by setView running later      *)
(* than the handler: viewRef.current keeps the earlier view until the       *)
(* effect of that render has run.  The broadcaster may end the broadcast.   *)

\* handleSignalingMessage; if it called setView, viewRef.current is still the
\* view it read
TrickleMessage(l) ==
  /\ HandleSignalingMessage(l)
  /\ viewRef' = [viewRef EXCEPT ![l] = IF view'[l] # view[l] THEN ViewRefCurrent(l) ELSE @]

\* useEffect(() => { viewRef.current = view; ... }, [view, broadcastId, username])
ViewRefEffect(l) ==
  /\ viewRef[l] # Nil
  /\ viewRef' = [viewRef EXCEPT ![l] = Nil]
  /\ UNCHANGED <<app, chatVars, relayVars, received, clientVars, netVars, castVars, shareVars>>

\* sessions of the broadcast clients that have produced a candidate
StarGathering ==
  {<<c, x>> \in Clients \X (Clients \cup {BroadcasterKey}) :
      x \in DOMAIN peerConnections[c] /\ peerConnections[c][x].gathered > 0}

\* pc.onicecandidate of the session that client l holds under key r (a
\* viewer's peerId in the broadcaster hook, 'broadcaster' in the viewer hook)
StarIceCandidate(l, r) ==
  /\ r \in DOMAIN peerConnections[l]
  /\ LET pc == peerConnections[l][r]
     IN /\ pc.localDescription
        /\ pc.gathered < MaxGather
        /\ StarGathering \subseteq {<<l, r>>}
        /\ peerConnections' = SetPc(l, r, [pc EXCEPT !.gathered = @ + 1])
        /\ sendSignaling(l, Signal("ice-candidate", l, r, Candidates[pc.gathered + 1]))
  /\ UNCHANGED <<app, viewRef, chatVars, castVars, shareVars, relayVars, received, pendingCandidates,
                 remotePeers, viewerCount, tasks, pcSerial, openPcs, arrived, added, sock, clientEnd,
                 isJoined, toClient>>

TrickleSystem ==
  \/ \E w \in Conns : StarSocketOpen(w)
  \/ \E l \in Clients : StarTimer(l)
  \/ \E w \in Conns : StarRelayMessage(w)
  \/ \E l \in Clients : TrickleMessage(l)
  \/ \E l \in Clients : ViewRefEffect(l)
  \/ \E l \in Clients : \E t \in tasks[l] : StarResume(l, t)
  \/ \E l \in Clients : \E r \in DOMAIN peerConnections[l] : StarIceCandidate(l, r)

\* the viewers of this broadcast
TrickleViewers == {"p2"}

\* a click is dispatched once the pending effects have run
NextTrickle ==
  \/ StarStartBroadcast(Broadcaster)
  \/ \E l \in TrickleViewers, id \in BroadcastIds : StarJoinBroadcast(l, id)
  \/ StarGoLive(Broadcaster)
  \/ \E l \in TrickleViewers : viewRef[l] = Nil /\ StarJoinAsViewer(l)
  \/ AirEndBroadcast(Broadcaster)
  \/ TrickleSystem

SpecTrickle == InitCast /\ [][NextTrickle]_vars

----------------------------------------------------------------------------
(* Properties of the mesh relay                                            *)

\* the connection holds the registry entry it last asked for
Registered(ws) ==
  /\ currentRoomId[ws] \in DOMAIN rooms
  /\ MapHas(rooms[currentRoomId[ws]], currentPeerId[ws])
  /\ MapGet(rooms[currentRoomId[ws]], currentPeerId[ws]).ws = ws

\* C2: for any two members of a room (taken with open transports), exactly
\* one was listed in the other's room-peers snapshot, the listed one was
\* sent peer-joined for the other, and neither got both for the same peer.
C2_SnapshotMatchesNotices ==
  \A r \in DOMAIN rooms : \A i, j \in 1..Len(rooms[r]) :
    LET A == rooms[r][i]
        B == rooms[r][j]
        AinB == A.peerId \in snapshot[B.ws]
        BinA == B.peerId \in snapshot[A.ws]
    IN (i # j /\ readyState[A.ws] = "OPEN" /\ readyState[B.ws] = "OPEN") =>
         /\ AinB # BinA
         /\ AinB => B.peerId \in notices[A.ws]
         /\ BinA => A.peerId \in notices[B.ws]
         /\ ~(AinB /\ A.peerId \in notices[B.ws])

C8_ForwardStep(ws, type, from, to, payload) ==
  LET rid == currentRoomId[ws]
      deliverable == MapHas(rooms[rid], to) /\ readyState[MapGet(rooms[rid], to).ws] = "OPEN"
  IN /\ rooms' = rooms
     /\ IF deliverable
        THEN /\ Len(sent') = 1
             /\ sent'[1].to = MapGet(rooms[rid], to).ws
             /\ sent'[1].msg.type = type
             /\ sent'[1].msg.from = currentPeerId[ws]
             /\ sent'[1].msg.payload = payload
        ELSE sent' = << >>

C8_ForwardExact ==
  [][\A ws \in Conns, type \in SignalTypes, from \in PeerIds, to \in PeerIds, payload \in Payloads :
       (RelayForward(ws, type, from, to, payload) /\ Registered(ws))
         => C8_ForwardStep(ws, type, from, to, payload)]_vars

\* C9: on every join, the room-peers reply does not contain the joiner's
\* own peerId, and peer-joined goes exactly once to each member that was
\* registered before this join and not to the joiner.
C9_JoinStep(ws, roomId, peerId) ==
  LET before == IF roomId \in DOMAIN rooms THEN rooms[roomId] ELSE << >>
      told == [i \in 1..(Len(sent') - 1) |-> sent'[i + 1].to]
  IN /\ sent'[1].to = ws /\ sent'[1].msg.type = "room-peers"
     /\ peerId \notin SeqRange(sent'[1].msg.peers)
     /\ told = [i \in 1..Len(before) |-> before[i].ws]
     /\ \A i \in 1..Len(told) : told[i] # ws /\ sent'[i + 1].msg.peerId = peerId

C9_JoinReplyExcludesSelf ==
  [][\A ws \in Conns, roomId \in RoomIds, peerId \in PeerIds :
       RelayJoin(ws, roomId, peerId) => C9_JoinStep(ws, roomId, peerId)]_vars

\* C10: each peerId is in the member table of at most one room.
C10_PeerInOneRoom ==
  \A p \in PeerIds : Cardinality({r \in DOMAIN rooms : MapHas(rooms[r], p)}) <= 1

\* position of a candidate in the arrival history
Pos(arr, c) == CHOOSE i \in 1..Len(arr) : arr[i] = c

\* C1: for every remote peer, the candidates passed to addIceCandidate are
\* passed at most once each and in the order in which they arrived, whatever
\* the interleaving of handleOffer/handleAnswer and handleIceCandidate
C1_CandidatesOnceInOrder ==
  \A l \in Clients, r \in Clients :
    \A i, j \in 1..Len(added[l][r]) :
      i < j => Pos(arrived[l][r], added[l][r][i]) < Pos(arrived[l][r], added[l][r][j])

\* RTCPeerConnection objects of client l for remote peer r that are not closed
OpenFor(l, r) == {x \in openPcs[l] : x[1] = r}

\* C5: session creation is idempotent per remote peer: while an entry for a
\* remote peer exists it is the only open RTCPeerConnection for that peer, at
\* most one initial offer is made on it, and remotePeers/viewers holds the
\* peer at most once
C5_SessionCreationIdempotent ==
  \A l \in Clients, r \in Clients :
    /\ Cardinality(OpenFor(l, r)) <= 1
    /\ r \in DOMAIN peerConnections[l] =>
         /\ OpenFor(l, r) = {<<r, peerConnections[l][r].id>>}
         /\ peerConnections[l][r].offers
              + Cardinality({t \in tasks[l] : t.pc = peerConnections[l][r].id
                                              /\ t.op # "handleOffer" /\ t.op # "handleAnswer"}) <= 1
    /\ Cardinality({i \in 1..Len(remotePeers[l]) : remotePeers[l][i] = r}) <= 1

\* a second creation request (handleOffer) met the session whose initial
\* offer this client has already sent
C5_Witness ==
  \E t \in tasks[Local] :
    /\ t.op = "handleOffer"
    /\ Alive(Local, t)
    /\ peerConnections[Local][t.remote].offers = 1
    /\ pcSerial[Local] = 1

\* client l made, or is making, the initial offer of its session with r
Initiated(l, r) ==
  /\ r \in DOMAIN peerConnections[l]
  /\ \/ peerConnections[l][r].offers > 0
     \/ \E t \in tasks[l] : t.remote = r /\ t.op = "createPeerConnection"

\* client l is in the call: connected, and the relay has handled its join
InCall(l) == sock[l] # Nil /\ joinedAt[sock[l]] > 0

\* nothing is in flight and no handler is suspended
Quiescent ==
  /\ \A l \in Clients : tasks[l] = {}
  /\ \A w \in Conns :
       /\ toRelay[w] = << >>
       /\ toClient[w] = << >>
       /\ (clientEnd[w] = "CLOSED" => readyState[w] = "CLOSED")

\* C3: in mesh a client makes the initial offer only to another peer that
\* joined before it, and once everything has been handled two clients that
\* are both in the call hold a session with each other
C3_OneSessionPerPair ==
  /\ \A l, r \in Clients :
       Initiated(l, r) =>
         /\ l # r
         /\ \E wl, wr \in Conns :
              /\ currentPeerId[wl] = l
              /\ currentPeerId[wr] = r
              /\ 0 < joinedAt[wr]
              /\ joinedAt[wr] < joinedAt[wl]
  /\ Quiescent =>
       \A l, r \in Clients :
         (l # r /\ InCall(l) /\ InCall(r)) => r \in DOMAIN peerConnections[l]

\* every client holds exactly the other clients as remote peers, each with a
\* session whose remote description is applied
AllConnected ==
  \A l \in Clients :
    /\ Len(remotePeers[l]) = Cardinality(Clients) - 1
    /\ \A r \in Clients \ {l} :
         /\ r \in SeqRange(remotePeers[l])
         /\ r \in DOMAIN peerConnections[l]
         /\ peerConnections[l][r].remoteDescription

\* C4: when the peers join the room one after another and every transport
\* stays open, eventually every peer holds all the others as remote peers
\* with the offer/answer exchange completed on both sides, and it stays so
C4_AllEventuallyConnected == <>[]AllConnected

\* the three peers have joined and all six sessions are negotiated
C4_Witness == AllConnected /\ Quiescent /\ \A l \in Clients : InCall(l)

\* the (room, peerId) entries under which connection ws is registered
Regs(rms, ws) ==
  {e \in RoomIds \X PeerIds :
     e[1] \in DOMAIN rms /\ MapHas(rms[e[1]], e[2]) /\ MapGet(rms[e[1]], e[2]).ws = ws}

\* peer-left messages naming pid that the step sent to connection w
PeerLeftTo(out, w, pid) ==
  {i \in 1..Len(out) : out[i].to = w /\ out[i].msg.type = "peer-left" /\ out[i].msg.peerId = pid}

C6_CloseStep ==
  \A ws \in Conns :
    (readyState[ws] # "CLOSED" /\ readyState'[ws] = "CLOSED") =>
      /\ Regs(rooms', ws) = {}
      /\ \A e \in Regs(rooms, ws) :
           \A k \in 1..Len(rooms[e[1]]) :
             LET m == rooms[e[1]][k]
             IN (m.ws # ws /\ readyState[m.ws] = "OPEN") =>
                  Cardinality(PeerLeftTo(sent', m.ws, e[2])) = 1

\* C6: when a member's transport closes the relay removes it from the room
\* and sends exactly one peer-left naming it to every remaining member whose
\* connection is open
C6_CloseRemovesAndNotifies == [][C6_CloseStep]_vars

\* C11: a mesh room is in the registry exactly when it has at least one
\* member; the close that removes the last member deletes the room, so the
\* registry never holds an empty room.
C11_NoEmptyRoom == \A r \in DOMAIN rooms : Len(rooms[r]) >= 1

\* A connection that had joined a room has closed and the room is gone,
\* while another room is still registered.
C11_Witness ==
  /\ \E ws \in Conns : /\ readyState[ws] = "CLOSED"
                       /\ currentRoomId[ws] # Nil
                       /\ currentRoomId[ws] \notin DOMAIN rooms
  /\ DOMAIN rooms # {}

\* C12: a viewer that sent leave-broadcast and whose transport then closes
\* is removed once: the leave removes exactly its own entry, and the close
\* that follows changes nothing in the registry.
Viewers(b) == IF b \in DOMAIN broadcasts THEN SeqRange(broadcasts[b].viewers) ELSE {}

C12_LeaveStep ==
  \A ws \in Conns :
    (ws \in left' /\ ws \notin left) =>
       /\ DOMAIN broadcasts' = DOMAIN broadcasts
       /\ \A b \in DOMAIN broadcasts :
            /\ Len(broadcasts'[b].viewers) =
                 Len(broadcasts[b].viewers) - (IF b = currentBroadcastId[ws] THEN 1 ELSE 0)
            /\ Viewers(b)' = IF b = currentBroadcastId[ws]
                             THEN Viewers(b) \ {[peerId |-> currentPeerId[ws], ws |-> ws]}
                             ELSE Viewers(b)

C12_CloseStep ==
  \A ws \in left : (readyState[ws] # "CLOSED" /\ readyState'[ws] = "CLOSED") => broadcasts' = broadcasts

C12_LeaveThenCloseRemovesOnce == [][C12_LeaveStep /\ C12_CloseStep]_vars

\* C14: in the broadcast relay every delivered offer comes from the
\* connection of the broadcast's broadcaster and goes to one of its viewers,
\* and no offer, answer or candidate goes from one viewer's connection to
\* another viewer's connection.
C14_StarSignaling ==
  frame.type \in SignalTypes =>
    \A i \in 1..Len(sent) :
      LET sender == frame.ws
          room == broadcasts[currentBroadcastId[sender]]
      IN /\ sent[i].msg.type = "offer" =>
              /\ room.broadcaster.ws = sender
              /\ \E j \in 1..Len(room.viewers) : room.viewers[j].ws = sent[i].to
         /\ ~(/\ currentRole[sender] = "viewer"
              /\ currentRole[sent[i].to] = "viewer"
              /\ sent[i].to # sender)

\* the connection of a registered broadcast's broadcaster goes to CLOSED in this step
BroadcasterCloses(b) ==
  /\ b \in DOMAIN broadcasts
  /\ readyState[broadcasts[b].broadcaster.ws] # "CLOSED"
  /\ readyState'[broadcasts[b].broadcaster.ws] = "CLOSED"

\* C16: when the transport of a broadcast's broadcaster closes, the relay
\* sets isLive to false, sends broadcast-ended to every viewer whose
\* connection is open and starts the grace timer; the record stays in the
\* registry as long as that timer has not fired.
C16_CloseStep ==
  \A b \in BroadcastIds :
    BroadcasterCloses(b) =>
      /\ b \in DOMAIN broadcasts'
      /\ ~broadcasts'[b].isLive
      /\ cleanup'[broadcasts[b].broadcaster.ws] = "armed"
      /\ \A j \in 1..Len(broadcasts[b].viewers) :
           readyState'[broadcasts[b].viewers[j].ws] = "OPEN" =>
             \E i \in 1..Len(sent') : /\ sent'[i].to = broadcasts[b].viewers[j].ws
                                      /\ sent'[i].msg.type = "broadcast-ended"
                                      /\ sent'[i].msg.broadcastId = b

C16_GraceStep ==
  \A b \in DOMAIN broadcasts :
    (/\ cleanup[broadcasts[b].broadcaster.ws] = "armed"
     /\ cleanup'[broadcasts[b].broadcaster.ws] = "armed") => b \in DOMAIN broadcasts'

C16_BroadcasterCloseEndsBroadcast == [][C16_CloseStep /\ C16_GraceStep]_vars

\* C17: once the transport of a broadcast's broadcaster has closed, the
\* broadcast is never resurrected: no step binds its record to another
\* broadcaster (a later create-broadcast gets a different id) and no step
\* makes its isLive true again.
C17_Step ==
  \A b \in DOMAIN broadcasts :
    (readyState[broadcasts[b].broadcaster.ws] = "CLOSED" /\ b \in DOMAIN broadcasts') =>
       /\ broadcasts'[b].broadcaster = broadcasts[b].broadcaster
       /\ broadcasts'[b].isLive => broadcasts[b].isLive

C17_NeverResurrected == [][C17_Step]_vars

\* a registered broadcast whose broadcaster's connection has closed and that
\* has no viewers
Orphan(b) ==
  /\ b \in DOMAIN broadcasts
  /\ readyState[broadcasts[b].broadcaster.ws] = "CLOSED"
  /\ Len(broadcasts[b].viewers) = 0

\* C18: a broadcast whose broadcaster's transport has closed is eventually
\* removed from the registry once it has no viewers, whether the last viewer
\* left before or after the grace timer fired: no broadcast stays registered
\* forever with a closed broadcaster and an empty viewers table.
C18_EndedBroadcastRemoved == \A b \in BroadcastIds : []<>~Orphan(b)

\* C20: a frame that is not a well-formed envelope (text that is not JSON,
\* a JSON value that is not an object, an object of unknown type) changes
\* neither the registry nor any connection's context, makes the relay send
\* nothing and leaves every connection as it was, so that the sender's later
\* messages are handled from the same state as if it had not been sent.
C20_Step ==
  (frame'.type \in MalformedFrames /\ received' # received) =>
     /\ UNCHANGED <<rooms, currentRoomId, currentPeerId, readyState>>
     /\ UNCHANGED <<broadcasts, currentBroadcastId, currentRole, cleanup>>
     /\ sent' = << >>

C20_MalformedIgnored == [][C20_Step]_vars

\* a connection that is registered in a room or broadcast has just sent a
\* malformed frame of the kind that makes the handler throw
C20_Witness ==
  /\ frame.type \in {"{", "null"}
  /\ readyState[frame.ws] = "OPEN"
  /\ \/ \E r \in DOMAIN rooms : \E i \in 1..Len(rooms[r]) : rooms[r][i].ws = frame.ws
     \/ \E b \in DOMAIN broadcasts : \/ broadcasts[b].broadcaster.ws = frame.ws
                                     \/ \E i \in 1..Len(broadcasts[b].viewers) :
                                           broadcasts[b].viewers[i].ws = frame.ws

\* C19: a connection failure triggers one automatic ICE restart; a session
\* that fails again is torn down instead of being restarted again, so no
\* session is ever restarted automatically more than once.
C19_AtMostOneRestart ==
  \A l \in Clients : \A r \in DOMAIN peerConnections[l] : peerConnections[l][r].restarts <= 1

\* the broadcaster holds exactly one session for viewer v, has sent it exactly
\* one initial offer and has applied its answer; v holds exactly one session
\* with the broadcaster's offer applied
Established(v) ==
  /\ v \in DOMAIN peerConnections[Broadcaster]
  /\ Cardinality(OpenFor(Broadcaster, v)) = 1
  /\ peerConnections[Broadcaster][v].offers = 1
  /\ peerConnections[Broadcaster][v].remoteDescription
  /\ peerConnections[Broadcaster][v].signalingState = "stable"
  /\ BroadcasterKey \in DOMAIN peerConnections[v]
  /\ Cardinality(OpenFor(v, BroadcasterKey)) = 1
  /\ peerConnections[v][BroadcasterKey].remoteDescription

\* C13: a viewer that joins while the broadcaster client is broadcasting, with
\* both transports open and messages delivered fairly, eventually has its
\* session established on both sides (one session, one initial offer, the
\* answer applied; on the viewer one session with the offer applied), and
\* this holds for each viewer.
C13_LiveJoinEstablished == <>[](\A v \in joinedLive : Established(v))

\* both viewers joined the live broadcast and both sessions are established
C13_Witness == joinedLive = StarViewers /\ \A v \in StarViewers : Established(v)

\* the peerIds registered as viewers of the broadcaster's broadcast
StarRoomViewers ==
  IF appBroadcastId[Broadcaster] \in DOMAIN broadcasts
  THEN {viewer.peerId : viewer \in SeqRange(broadcasts[appBroadcastId[Broadcaster]].viewers)}
  ELSE {}

\* C15: once the broadcaster is live, every viewer that had joined before it
\* went live is eventually sent an offer, and no viewer is ever sent a second
\* initial offer.
C15_EarlyViewersOffered ==
  /\ <>[](view[Broadcaster] = "broadcasting" =>
            \A v \in StarRoomViewers \ joinedLive :
               /\ v \in DOMAIN peerConnections[Broadcaster]
               /\ peerConnections[Broadcaster][v].offers = 1)
  /\ [](\A v \in DOMAIN peerConnections[Broadcaster] : peerConnections[Broadcaster][v].offers <= 1)

\* the step changes nothing in the broadcast registry or in any connection's
\* context, and the relay sends nothing to connection ws
Quiet(ws) ==
  /\ UNCHANGED <<broadcasts, currentBroadcastId, currentPeerId, currentRole>>
  /\ \A i \in 1..Len(sent') : sent'[i].to # ws

\* C21: a message that names a broadcast that is not registered (join-broadcast,
\* start-broadcast, end-broadcast, leave-broadcast, chat-message) changes no
\* registry state and produces no reply to its sender, in particular no error.
C21_Step ==
  \A ws \in Conns, b \in BroadcastIds :
    b \notin DOMAIN broadcasts =>
      /\ (\E peerId \in PeerIds : CastJoinBroadcast(ws, b, peerId)) => Quiet(ws)
      /\ (\E peerId \in PeerIds : CastLeaveBroadcast(ws, b, peerId)) => Quiet(ws)
      /\ CastStartBroadcast(ws, b) => Quiet(ws)
      /\ CastEndBroadcast(ws, b) => Quiet(ws)
      /\ CastChatMessage(ws, b, "hi") => Quiet(ws)

C21_UnknownReferenceDropped == [][C21_Step]_vars

\* C22: a message handed to the signaling hook's send() after connect() is
\* transmitted to the relay whenever the transport has not disconnected: in
\* every interleaving of the socket's open event with the timer that sends
\* create-broadcast or join-broadcast, the timer's message goes out.
C22_Step ==
  \A l \in Clients :
    (sendTimer[l] # << >> /\ sendTimer'[l] = Tail(sendTimer[l])) =>
       /\ sock[l] # Nil
       /\ clientEnd[sock[l]] # "CLOSED"
       /\ toRelay'[sock[l]] = Append(toRelay[sock[l]], Head(sendTimer[l]))

C22_SentAfterConnectTransmitted == [][C22_Step]_vars

\* the step leaves the key set of the connection table of Local and the
\* RTCPeerConnection of each key as they were, and every handler it starts
\* works on the connection that the table holds
SameSessions ==
  /\ DOMAIN peerConnections'[Local] = DOMAIN peerConnections[Local]
  /\ \A r \in DOMAIN peerConnections[Local] :
        peerConnections'[Local][r].id = peerConnections[Local][r].id
  /\ openPcs'[Local] = openPcs[Local]
  /\ pcSerial'[Local] = pcSerial[Local]
  /\ \A t \in tasks'[Local] \ tasks[Local] :
        /\ t.remote \in DOMAIN peerConnections[Local]
        /\ t.pc = peerConnections[Local][t.remote].id

\* C23: renegotiation never creates or replaces a session: an offer from a
\* remote peer that already has a session, adding or removing the screen-share
\* track, and the continuations of these handlers leave the key set of the
\* connection table and each RTCPeerConnection unchanged, and the exchange
\* runs on the existing connection.
C23_Step ==
  /\ \A r \in DOMAIN peerConnections[Local] : OrchHandleOffer(r) => SameSessions
  /\ (BroadcasterKey \in DOMAIN peerConnections[Local] /\ OrchViewerHandleOffer) => SameSessions
  /\ OrchAddScreenShareTrack => SameSessions
  /\ OrchRemoveScreenShareTrack => SameSessions
  /\ \A t \in tasks[Local] :
       (t.op \in {"handleOffer", "addScreenShareTrack", "removeScreenShareTrack"} /\ OrchResume(t))
          => SameSessions

C23_RenegotiationKeepsSession == [][C23_Step]_vars

\* the only connection ever made for a remote peer answered that peer's offer
\* and later sent a renegotiation offer that carries the screen-share track
C23_Witness ==
  \E r \in DOMAIN peerConnections[Local] :
    /\ pcSerial[Local] = 1
    /\ peerConnections[Local][r].remoteDescription
    /\ peerConnections[Local][r].screen
    /\ peerConnections[Local][r].offers = 1

\* the room-peers that client n received on joining listed sh with
\* isScreenSharing true
LateJoin(n, sh) == sock[n] # Nil /\ sh \in reportedSharing[sock[n]]

\* C24: when a peer joins a room in which member S is screen sharing (the
\* relay lists S with isScreenSharing true in room-peers), then once the
\* initial offer/answer between the two has completed S sends the new peer a
\* renegotiation offer on that session.
C24_LateJoinerRenegotiated ==
  \A n \in ShareClients, sh \in ShareClients :
    [](LateJoin(n, sh) =>
         <>(/\ n \in DOMAIN peerConnections[sh]
            /\ peerConnections[sh][n].offers >= 1))

\* client l does not share its screen, no connection of l carries a sender
\* for a screen track, the relay's isScreenSharing for l is false and no
\* remote peer holds a screenStream for l
ShareCleared(l) ==
  /\ \A r \in DOMAIN peerConnections[l] : ~peerConnections[l][r].screen
  /\ <<Room, l>> \notin isScreenSharing
  /\ \A r \in ShareClients : l \notin remoteScreen[r]

\* C25: whenever local screen sharing stops, by the button or by the browser's
\* stop control, the screen tracks are removed from every open connection, the
\* relay is told, and eventually the relay's flag for the peer is false and
\* every remote peer has cleared its screenStream for it.
C25_StopClearsShare ==
  \A l \in ShareClients : <>[](~screenStream[l] => ShareCleared(l))

\* the connections registered in broadcast b: the broadcaster's and each
\* viewer's
Members(b) ==
  {broadcasts[b].broadcaster.ws} \cup {viewer.ws : viewer \in SeqRange(broadcasts[b].viewers)}

\* the number of messages of the send list s that go to connection w
Copies(s, w) == Cardinality({i \in 1..Len(s) : s[i].to = w})

\* C26: a chat-message from a member of a registered broadcast is delivered
\* as one chat record, exactly once to every other member whose connection is
\* open and to no connection that is not a member.
C26_Step ==
  \A ws \in Conns, b \in BroadcastIds :
    (b \in DOMAIN broadcasts /\ ws \in Members(b) /\ CastChatMessage(ws, b, "hi")) =>
       /\ \A i \in 1..Len(sent') :
            sent'[i].msg = CastMessage("chat", Nil, Nil, currentPeerId[ws], Nil, FALSE, "hi")
       /\ \A w \in Conns \ {ws} :
            Copies(sent', w) = IF w \in Members(b) /\ readyState[w] = "OPEN" THEN 1 ELSE 0

C26_ChatDeliveredOnce == [][C26_Step]_vars

\* C29: at the broadcaster client, after any sequence of viewer-joined and
\* viewer-left notices, viewerCount equals the number of entries in viewers
\* and the number of viewer sessions.
C29_ViewerCountMatches ==
  /\ viewerCount[Broadcaster] = Len(remotePeers[Broadcaster])
  /\ viewerCount[Broadcaster] = Cardinality(DOMAIN peerConnections[Broadcaster])

\* connection w has a message to handle that carries the live state
LivePending(w) ==
  \E i \in 1..Len(toClient[w]) :
    toClient[w][i].type \in {"broadcast-info", "broadcast-started", "broadcast-ended"}

\* client l is connected, its connection is open at the relay and registered
\* as a viewer of broadcast b
RegisteredViewer(l, b) ==
  /\ sock[l] # Nil
  /\ clientEnd[sock[l]] = "OPEN"
  /\ readyState[sock[l]] = "OPEN"
  /\ \E i \in 1..Len(broadcasts[b].viewers) : broadcasts[b].viewers[i].ws = sock[l]

C28_Agree ==
  \A l \in StarViewers, b \in DOMAIN broadcasts :
    (RegisteredViewer(l, b) /\ ~LivePending(sock[l])) => isLive[l] = broadcasts[b].isLive

C28_Step ==
  \A l \in StarViewers :
    (/\ view[l] = "viewing"
     /\ sock[l] # Nil
     /\ toClient[sock[l]] # << >>
     /\ Head(toClient[sock[l]]).type = "broadcast-ended"
     /\ HandleSignalingMessage(l))
    => (view'[l] = "viewer-lobby" /\ ~isLive'[l])

\* C28: for every registered viewer whose connection stays open, once the
\* broadcast-info, broadcast-started and broadcast-ended messages sent to it
\* have been handled, the client's isLive equals the relay's isLive of that
\* broadcast; a viewer in the viewing view that handles broadcast-ended
\* returns to the viewer lobby with isLive false.
C28_ViewerLiveAgrees == []C28_Agree /\ [][C28_Step]_vars

\* a registered viewer that had a session toward the broadcaster is back in
\* the viewer lobby with isLive false after the broadcast ended, with nothing
\* left to handle
C28_Witness ==
  \E l \in StarViewers, b \in DOMAIN broadcasts :
    /\ RegisteredViewer(l, b)
    /\ toClient[sock[l]] = << >>
    /\ BroadcasterKey \in DOMAIN peerConnections[l]
    /\ view[l] = "viewer-lobby"
    /\ ~isLive[l]
    /\ ~broadcasts[b].isLive
    /\ view[Broadcaster] = "home"

\* the entry of dataChannelsRef of client l for r
ChannelAt(l, r) == IF r \in DOMAIN peerConnections[l] THEN peerConnections[l][r].channel ELSE NoChannel

\* the number of times message m occurs in the sequence s
Occurs(s, m) == Cardinality({i \in 1..Len(s) : s[i] = m})

\* each pair of negotiated peers shares exactly one chat data channel, made on
\* the connection of the side that created it and registered at the other
\* side once it has been announced there
C27_OneChannel ==
  \A l \in Clients : \A r \in Clients \ {l} :
    LET cl == ChannelAt(l, r)
        cr == ChannelAt(r, l)
    IN /\ cl # NoChannel =>
            /\ {cl.by, cl.to} = {l, r}
            /\ cl.by = l => (cl.to = r /\ cl.id = peerConnections[l][r].id)
            /\ cl.by = r => cl \in announced
       /\ (cl # NoChannel /\ cr # NoChannel) => cl = cr
       /\ (Negotiated(l, r) /\ Negotiated(r, l)) => (cl # NoChannel \/ cr # NoChannel)
       /\ \A c \in opened \cup announced :
            (c.by = l /\ c.to = r) => (cl = c /\ (c \in announced => cr = c))

\* every message was appended once to its sender's list, and for every remote
\* peer it is once in flight or in that peer's list if it was sent on the
\* peer's channel, and nowhere otherwise
C27_DeliveredOnce ==
  /\ \A n \in 1..received : Cardinality({l \in Clients : Occurs(messages[l], ChatMessage(l, n)) = 1}) = 1
  /\ \A l \in Clients, n \in 1..MaxChat + 1 :
       /\ Occurs(messages[l], ChatMessage(l, n)) <= 1
       /\ \A r \in Clients \ {l} :
            Occurs(messages[r], ChatMessage(l, n))
              + Cardinality({i \in 1..Len(wire[<<l, r>>]) : wire[<<l, r>>][i].message = ChatMessage(l, n)})
            = IF <<ChatMessage(l, n), r>> \in posted THEN 1 ELSE 0

\* sendChatMessage sends on exactly the channels that are open and appends
\* the message to the sender's list
C27_Step ==
  \A l \in Clients :
    SendChatMessage(l) =>
      /\ messages'[l] = Append(messages[l], ChatMessage(l, received + 1))
      /\ \A r \in Clients \ {l} :
           Len(wire'[<<l, r>>]) =
             Len(wire[<<l, r>>]) + (IF ReadyStateOpen(l, ChannelAt(l, r)) THEN 1 ELSE 0)

\* C27: in mesh, each pair of connected peers shares exactly one chat data
\* channel, created by the initiating side and registered on the other side
\* when it is announced; sendChatMessage delivers the message exactly once to
\* every remote peer whose channel is open and appends it exactly once to the
\* sender's own message list.
C27_OneChannelChatOnce == []C27_OneChannel /\ []C27_DeliveredOnce /\ [][C27_Step]_vars

\* three peers are in the call, a message was sent on two open channels and
\* each of the three message lists holds it
C27_Witness ==
  \E l \in Clients :
    /\ \A r \in Clients \ {l} : <<ChatMessage(l, 1), r>> \in posted
    /\ \A r \in Clients : messages[r] = <<ChatMessage(l, 1)>>

\* nothing is held for remote peer r in the given connection table, queues,
\* remotePeers / viewers list, open connections and suspended handlers; the
\* dataChannelsRef entry is part of the connection's record
ReleasedIn(pcs, pending, rp, open, ts, r) ==
  /\ r \notin DOMAIN pcs
  /\ r \notin DOMAIN pending
  /\ r \notin SeqRange(rp)
  /\ \A x \in open : x[1] # r
  /\ \A t \in ts : t.remote # r

Released(r) ==
  ReleasedIn(peerConnections[Local], pendingCandidates[Local], remotePeers[Local],
             openPcs[Local], tasks[Local], r)

ReleasedNext(r) ==
  ReleasedIn(peerConnections'[Local], pendingCandidates'[Local], remotePeers'[Local],
             openPcs'[Local], tasks'[Local], r)

\* C30: closing a session releases everything held for that pair in the same
\* step: after removePeer, removeViewer, closeConnection or
\* closeAllConnections no connection, data channel, pending-candidate queue
\* or remotePeers / viewers entry for the peer exists, and no handler that was
\* suspended when the session was closed brings any of them back.
C30_Step ==
  /\ \A r \in Remotes : OrchRemovePeer(r) => ReleasedNext(r)
  /\ OrchCloseAllConnections => \A r \in Remotes : ReleasedNext(r)
  /\ OrchCloseConnection => ReleasedNext(BroadcasterKey)
  /\ \A t \in tasks[Local] :
       OrchResume(t) => \A r \in Remotes \cup {BroadcasterKey} : Released(r) => ReleasedNext(r)

C30_CloseReleasesAll == [][C30_Step]_vars

\* the only session ever made was closed while a candidate was queued for it
\* and a handler was possibly suspended: nothing is held for the peer
C30_Witness ==
  \E r \in Remotes :
    /\ pcSerial[Local] = 1
    /\ Released(r)
    /\ arrived[Local][r] # << >>
    /\ added[Local][r] = << >>
    /\ openPcs[Local] = {}

\* C37: create-broadcast never replaces a broadcast that is already in the
\* registry: the id allocated to a client differs from the id of every
\* broadcast registered by another connection, whose broadcaster, viewers and
\* isLive are unchanged by the step.
C37_Step ==
  \A ws \in Conns, peerId \in PeerIds, broadcastId \in BroadcastIds :
    CastCreateBroadcast(ws, peerId, broadcastId) =>
      \A x \in DOMAIN broadcasts :
        broadcasts[x].broadcaster.ws # ws =>
          /\ x # broadcastId
          /\ x \in DOMAIN broadcasts'
          /\ broadcasts'[x] = broadcasts[x]

C37_CreateKeepsBroadcasts == [][C37_Step]_vars

\* the viewers entries of the registry that are not bound to connection ws,
\* each with the broadcast that holds it
OthersEntries(reg, ws) ==
  {<<x, reg[x].viewers[i]>> : <<x, i>> \in
     {y \in (DOMAIN reg) \X (1..Cardinality(Conns) * Cardinality(PeerIds)) :
        y[2] <= Len(reg[y[1]].viewers) /\ reg[y[1]].viewers[y[2]].ws # ws}}

\* C34: a leave-broadcast message removes at most the sending connection's
\* own viewer entry: the viewers entries of the other connections, in this
\* and in every other broadcast, are the same after the step.
C34_Step ==
  \A ws \in Conns, broadcastId \in BroadcastIds, peerId \in PeerIds :
    CastLeaveBroadcast(ws, broadcastId, peerId) =>
      OthersEntries(broadcasts', ws) = OthersEntries(broadcasts, ws)

C34_LeaveRemovesOwnEntry == [][C34_Step]_vars

\* connection ws is the broadcaster or a viewer of broadcast x of the registry
RegisteredIn(reg, ws, x) ==
  /\ x \in DOMAIN reg
  /\ \/ reg[x].broadcaster.ws = ws
     \/ \E i \in 1..Len(reg[x].viewers) : reg[x].viewers[i].ws = ws

\* C33: the relay sends a message to a member of a broadcast as the result of
\* a client message only if the sending connection is registered in that
\* broadcast (before the message, or by it): every message that a client
\* message makes the relay send to another connection goes to a member of a
\* broadcast that holds the sender as well.
C33_Step ==
  (frame' # frame /\ frame'.type \notin {"close", "timeout"}) =>
    \A i \in 1..Len(sent') :
      sent'[i].to # frame'.ws =>
        \E x \in BroadcastIds :
          /\ RegisteredIn(broadcasts, sent'[i].to, x) \/ RegisteredIn(broadcasts', sent'[i].to, x)
          /\ RegisteredIn(broadcasts, frame'.ws, x) \/ RegisteredIn(broadcasts', frame'.ws, x)

C33_OnlyMembersCauseDelivery == [][C33_Step]_vars

\* C35: after the relay has processed a connection's close event no broadcast
\* holds a viewer entry bound to that connection, and none holds it as
\* broadcaster except the broadcast whose grace timer the close has started.
C35_Step ==
  \A ws \in Conns :
    CastClose(ws) =>
      \A x \in DOMAIN broadcasts' :
        /\ \A i \in 1..Len(broadcasts'[x].viewers) : broadcasts'[x].viewers[i].ws # ws
        /\ broadcasts'[x].broadcaster.ws = ws =>
             (x = currentBroadcastId[ws] /\ cleanup'[ws] = "armed")

C35_CloseUnbindsConnection == [][C35_Step]_vars

\* no peerId occurs twice in the list
NoDuplicate(rp) == \A i, j \in 1..Len(rp) : rp[i] = rp[j] => i = j

AnswerAtHand(l, r) ==
  \/ \E t \in tasks[l] : t.op = "handleAnswer" /\ t.remote = r
  \/ sock[l] # Nil /\ \E i \in 1..Len(toClient[sock[l]]) :
       toClient[sock[l]][i].type = "answer" /\ toClient[sock[l]][i].from = r
  \/ sock[r] # Nil /\ \E i \in 1..Len(toRelay[sock[r]]) :
       toRelay[sock[r]][i].type = "answer" /\ toRelay[sock[r]][i].to = l

\* client l has set and sent a new offer on its negotiated session with r, no
\* handler of l is suspended on that session, and r has not answered the offer
OfferOutstanding(l, r) ==
  /\ Negotiated(l, r)
  /\ peerConnections[l][r].signalingState = "have-local-offer"
  /\ \A t \in tasks[l] : t.remote # r
  /\ ~AnswerAtHand(l, r)

\* C32: on a mesh session the two sides never both have an unanswered offer at
\* the same time, so that no remote offer is handled while the local offer is
\* outstanding, whatever the order in which the two ends start and stop
\* sharing their screens.
C32_NoGlare ==
  \A l \in Clients : \A r \in Clients \ {l} :
    ~(OfferOutstanding(l, r) /\ OfferOutstanding(r, l))

\* the client handles a delivered ice-candidate message and its orchestrator
\* is given the candidate
C31_Step ==
  \A l \in Clients :
    (TrickleMessage(l) /\ Head(toClient[sock[l]]).type = "ice-candidate") =>
      \E r \in Clients \cup {BroadcasterKey} :
        arrived'[l][r] = Append(arrived[l][r], Head(toClient[sock[l]]).payload)

\* C31: every ice-candidate message that the relay delivers to a broadcast
\* client is handed to handleIceCandidate of that client's orchestrator,
\* whatever view the client is in when the message arrives; none is
\* discarded before it.
C31_CandidateReachesOrchestrator == [][C31_Step]_vars

====
